---- MODULE Spec2Model ----
(***************************************************************************)
(* A model of the signal-processing core of radiothing: the RTTY/Baudot    *)
(* decoder (src/src/dsp/rtty_decode.rs), the FIR filter                    *)
(* (src/src/dsp/fir_filter.rs), the multistage decimator                   *)
(* (src/src/dsp/multistage_fir.rs) and the decoder driver                  *)
(* (src/src/decoder.rs).                                                   *)
(*                                                                         *)
(* Pointers are modelled as 0-based indices into a sequence; element i of  *)
(* a buffer b is b[i + 1].  Samples are complex numbers <<re, im>> with    *)
(* integer parts, filter taps are integers: the code performs the same     *)
(* operations in the same order on f32 values.                             *)
(***************************************************************************)
EXTENDS Integers, Sequences, FiniteSets, TLC

(***************************************************************************)
(* Bounds of the model.                                                    *)
(***************************************************************************)
\* longest free-form bit batch handed to decode
MaxBits == 8
\* the decode loop is cut once it has pushed this many characters
MaxString == 4
\* most idle bits put before and between synthesised frames
MaxGap == 1
\* most frames in a synthesised stream of frames
MaxCodes == 2
\* longest sample sequence handed to the filters
MaxSamples == 5
\* largest decimation factor of a filter stage
MaxDecim == 3
\* most stages of a multistage filter
MaxStages == 2
\* the mtu of the receive stream
MaxMtu == 7
\* longest signal the receive stream delivers
MaxSignal == 7
\* most reads of the receive loop
MaxReads == 2

\* The arguments decode is called with: the sample rate, and baudrate and
\* stop_bits in quarters (baud_q = 8 is 2 Bd; stop_q = 1 is 0.25 stop bits,
\* 4 is one, 8 is two).  These give half a sample, one sample and two samples
\* per symbol, and the f32 quotients and products of decode are exact.
SampleRates == {1, 2, 4}
BaudRatesQ == {8}
StopBitsQ == {1, 4, 8}

Confs == [samplerate : SampleRates, baud_q : BaudRatesQ, stop_q : StopBitsQ]

\* all sequences over S of length at most n
RECURSIVE SeqsUpTo(_, _)
SeqsUpTo(S, n) ==
    IF n = 0 THEN {<<>>}
    ELSE LET shorter == SeqsUpTo(S, n - 1)
         IN  shorter \cup {Append(s, x) : s \in {t \in shorter : Len(t) = n - 1}, x \in S}

RECURSIVE Pow2(_)
Pow2(n) == IF n = 0 THEN 1 ELSE 2 * Pow2(n - 1)

Max(a, b) == IF a >= b THEN a ELSE b

Min(a, b) == IF a <= b THEN a ELSE b

\* Option<T>: None, Some(x) and unwrap
None == <<>>
Some(x) == <<x>>
Unwrap(o) == o[1]

\* b copied n times
Rep(b, n) == [i \in 1..n |-> b]

VARIABLES
    \* ---- rtty_decode::decode, one call at a time ----
    conf,         \* [samplerate, baud_q, stop_q] the call is made with
    samples,      \* the samples of the current call
    bits,         \* the bit buffer: leftover bits, then room for the new ones
    bits_offset,  \* decode's argument bits_offset
    cursor,       \* decode's cursor, an index into bits
    pc,           \* where decode is: demod, seek, check, extract, done, oob, idle
    string,       \* the characters decode has pushed in this call
    letters,      \* the caller's shift state (&mut bool)
    feed,         \* what the caller still has to feed and what it fed
    emitted,      \* characters of the calls that returned
    resync,       \* cursor right after the last failed stop window, or -1
    last          \* the last decode_baudot call: its arguments and its result

decVars == <<conf, samples, bits, bits_offset, cursor, pc, string, letters,
             feed, emitted, resync, last>>

VARIABLES
    \* ---- FirFilter::apply, in place, one call at a time ----
    fir_taps,     \* FirFilter.taps
    fir_decim,    \* apply's argument decimation
    fir_len,      \* apply's argument len
    fir,          \* the call: [mem, src_i, dst_i, acc, pc, ret]
    input,        \* the input of this call as it was, and what is still to come
    outputs       \* outputs of the calls that returned

firVars == <<fir_taps, fir_decim, fir_len, fir, input, outputs>>

VARIABLES
    \* ---- MultistageFir::apply, one call per batch ----
    filter,       \* the MultistageFir
    batch_buffer, \* the caller's buffer as the last call left it
    applied,      \* what the last call returned: [start, count, status, log]
    batches,      \* the batches: [whole, rest, call, reserve, stale, added]
    decimated     \* outputs of the calls that returned

msVars == <<filter, batch_buffer, applied, batches, decimated>>

VARIABLES
    \* ---- DeviceWorker::error_process with a BaudotDecoder ----
    working_memory,
    mtu,
    memory_receive_offset,
    memory_received_count,
    samplerate,           \* receive_state.samplerate
    current_fir_filter,
    decoder,              \* [baudrate_q, stop_q, shift, letters, leftover_bits, decim]
    sender,               \* the DecodedChars events sent
    signal,               \* the samples the stream still has to deliver
    reads,                \* number of reads so far
    processed,            \* the last process call: its calls of apply and decode
    worker_pc             \* receive, process, or how the thread ended

wkVars == <<working_memory, mtu, memory_receive_offset, memory_received_count,
            samplerate, current_fir_filter, decoder, sender, signal, reads,
            processed, worker_pc>>

VARIABLES
    \* ---- FirFilter::new_lowpass, one construction at a time ----
    lowpass       \* the arguments, the locals ntaps, buf, fmax and where it is

lpVars == <<lowpass>>

VARIABLES
    \* ---- DeviceWorker::error_process, the commands that configure it ----
    worker,        \* the DeviceWorker: [device, receive_state, mtu, decoder,
                   \* working_memory_len, memory_receive_offset,
                   \* decimation_fir_cache, current_fir_filter]
    rc_heap,       \* the FirFilter objects made by Rc::new; an Rc is an
                   \* index into this sequence
    built,         \* the calls of new_multistage_decim_precise so far
    worker_thread  \* running, or how the thread ended

cfgVars == <<worker, rc_heap, built, worker_thread>>

VARIABLES
    \* ---- DeviceWorker::error_process, the order of its steps ----
    thread,               \* where the thread is in the loop and which of
                          \* device, receive_stream, receive_state, decoder
                          \* are Some; receive_stream_active
    receive_enable_flag,  \* the AtomicBool the main thread stores to
    batch                 \* the last batch read: its number, the runs of
                          \* Decoder::process on it, whether a decoder was
                          \* installed ever since, whether a command
                          \* failed, whether a run had no new batch

loopVars == <<thread, receive_enable_flag, batch>>

VARIABLES
    \* ---- Settings::new ----
    config_text,   \* the string argument, a sequence of characters
    lines,         \* the pieces the string was written from
    parser         \* the cursor, the fields and errors so far, and whether
                   \* the 'statements loop is running, returned or panicked

setVars == <<config_text, lines, parser>>

VARIABLES
    \* ---- InnerDeviceManager and the two channels to its worker ----
    manager,          \* device_valid, receiver_valid, decoder_valid,
                      \* refreshing_devices, data_requests_in_flight,
                      \* scheduled_commands, the milliseconds elapsed since
                      \* start_time, and what the last send_command and the
                      \* last poll_scheduled_commands did
    device_commands,  \* the DeviceBoundCommand channel, oldest first
    gui_events,       \* the GuiBoundEvent channel, oldest first
    device_worker     \* the worker thread: whether it runs, which of
                      \* available_devices, device, receive_state are Some,
                      \* and the command it handled last

mgrVars == <<manager, device_commands, gui_events, device_worker>>

VARIABLES
    \* ---- Worker, the task queue with its "Simple worker" thread ----
    stop_flag,      \* stop, the AtomicBool Drop stores to
    queue,          \* the Vec of queued tasks, the last one popped first
    simple_worker   \* the thread: where it is in its loop, its park token,
                    \* the tasks it processed; and how far Drop has come

poolVars == <<stop_flag, queue, simple_worker>>

vars == <<decVars, firVars, msVars, wkVars, lpVars, cfgVars, loopVars, setVars,
          mgrVars, poolVars>>

\* what the steps of each part leave alone
notDec == <<firVars, msVars, wkVars, lpVars, cfgVars, loopVars, setVars,
          mgrVars, poolVars>>
notFir == <<decVars, msVars, wkVars, lpVars, cfgVars, loopVars, setVars,
          mgrVars, poolVars>>
notMs == <<decVars, firVars, wkVars, lpVars, cfgVars, loopVars, setVars,
          mgrVars, poolVars>>
notWk == <<decVars, firVars, msVars, lpVars, cfgVars, loopVars, setVars,
          mgrVars, poolVars>>
notLp == <<decVars, firVars, msVars, wkVars, cfgVars, loopVars, setVars,
          mgrVars, poolVars>>
notCfg == <<decVars, firVars, msVars, wkVars, lpVars, loopVars, setVars,
          mgrVars, poolVars>>
notLoop == <<decVars, firVars, msVars, wkVars, lpVars, cfgVars, setVars,
          mgrVars, poolVars>>
notSet == <<decVars, firVars, msVars, wkVars, lpVars, cfgVars, loopVars,
          mgrVars, poolVars>>
notMgr == <<decVars, firVars, msVars, wkVars, lpVars, cfgVars, loopVars, setVars,
          poolVars>>
notPool == <<decVars, firVars, msVars, wkVars, lpVars, cfgVars, loopVars, setVars,
          mgrVars>>

(***************************************************************************)
(* FirFilter::apply                                                        *)
(***************************************************************************)
\* the element type T: zero, addition, and multiplication by a real tap
TZero == <<0, 0>>
TAdd(x, y) == <<x[1] + y[1], x[2] + y[2]>>
TScale(x, t) == <<x[1] * t, x[2] * t>>

side_len(taps) == (Len(taps) - 1) \div 2

\* acc after the inner loop over j in 0..filter_len: the taps against the
\* filter_len elements from `start` on
RECURSIVE Dot(_, _, _, _)
Dot(mem, start, taps, j) ==
    IF j = Len(taps) THEN TZero
    ELSE TAdd(TScale(mem[start + j + 1], taps[j + 1]), Dot(mem, start, taps, j + 1))

\* the write at the window's centre instead of at the output cursor
DstIndex_AtCentre(dst, f) == dst + f.src_i

\* where *dst.add(dst_i) writes
DstIndex(dst, f) == dst + f.dst_i

\* The state of a call is f = [mem, src_i, dst_i, acc, pc, ret].  `len -
\* side_len` overflows usize when len < side_len: a panic where overflow is
\* checked, and otherwise a loop bound near 2^64 under which the loop reads
\* past its input until the process faults; pc "fault" is either.
FirEnter(mem, len, taps) ==
    [mem |-> mem, src_i |-> side_len(taps), dst_i |-> 0, acc |-> TZero,
     pc |-> IF len < side_len(taps) THEN "fault" ELSE "test", ret |-> 0]

\* a return statement that gives back the whole length
FirTest_ReturnsLen(f, src, len, taps) ==
    IF f.src_i < len - side_len(taps)
    THEN [f EXCEPT !.acc = Dot(f.mem, src + f.src_i - side_len(taps), taps, 0),
                   !.pc = "write"]
    ELSE [f EXCEPT !.pc = "ret", !.ret = len]

\* the loop test with the inner loop, or the return value
FirTest(f, src, len, taps) ==
    IF f.src_i < len - side_len(taps)
    THEN [f EXCEPT !.acc = Dot(f.mem, src + f.src_i - side_len(taps), taps, 0),
                   !.pc = "write"]
    ELSE [f EXCEPT !.pc = "ret",
                   !.ret = Max(len - (f.src_i - side_len(taps)), 0)]

\* the write of acc and the two cursor increments
FirWrite(f, dst, decim) ==
    [f EXCEPT !.mem[DstIndex(dst, f) + 1] = f.acc,
              !.src_i = f.src_i + decim,
              !.dst_i = f.dst_i + 1,
              !.pc = "test"]

RECURSIVE FirRun(_, _, _, _, _, _)
FirRun(f, src, dst, len, decim, taps) ==
    IF f.pc = "test" THEN FirRun(FirTest(f, src, len, taps), src, dst, len, decim, taps)
    ELSE IF f.pc = "write" THEN FirRun(FirWrite(f, dst, decim), src, dst, len, decim, taps)
    ELSE f

\* a whole call: the memory after it, the number of outputs written (dst_i),
\* the value returned (ret), and pc = "ret" or "fault"
FirFilter_apply(mem, src, dst, len, decim, taps) ==
    FirRun(FirEnter(mem, len, taps), src, dst, len, decim, taps)

(***************************************************************************)
(* FirFilter::new_lowpass and the window function                          *)
(*                                                                         *)
(* A float is [class, num, den]: the finite value num / den, NaN or an     *)
(* infinity.  Window values are in units of 10^-5 and factors in units of  *)
(* 10^-3, a product with a factor is rounded down to the unit; the         *)
(* normalisation is exact.  An angle is a fraction k / q of a turn, and    *)
(* sin is Bhaskara's rational approximation, odd and symmetric about a     *)
(* quarter turn as the sine is.                                            *)
(***************************************************************************)
Fin(v) == [class |-> "finite", num |-> v, den |-> 1]
NaN == [class |-> "nan", num |-> 0, den |-> 1]
Inf == [class |-> "inf", num |-> 0, den |-> 1]

\* x * (s / 1000), rounded down
FScale(x, s) ==
    IF x.class = "finite" THEN [x EXCEPT !.num = (x.num * s) \div 1000] ELSE x

FAdd(x, y) ==
    IF x.class = "nan" \/ y.class = "nan" THEN NaN
    ELSE IF x.class = "inf" \/ y.class = "inf" THEN Inf
    ELSE Fin(x.num + y.num)

\* x / y for finite integers x, y: 0 / 0 is NaN and x / 0 an infinity
FDiv(x, y) ==
    IF x.class /= "finite" \/ y.class /= "finite" THEN NaN
    ELSE IF y.num = 0 THEN (IF x.num = 0 THEN NaN ELSE Inf)
    ELSE [class |-> "finite", num |-> x.num, den |-> y.num]

\* x * y for an integer x: 0 times an infinity is NaN
FMul(x, y) ==
    IF x.class = "nan" \/ y.class = "nan" THEN NaN
    ELSE IF y.class = "inf" THEN (IF x.num = 0 THEN NaN ELSE Inf)
    ELSE IF x.class = "inf" THEN (IF y.num = 0 THEN NaN ELSE Inf)
    ELSE [class |-> "finite", num |-> x.num * y.num, den |-> y.den]

\* a / b rounded down, for b of either sign: a / b = (-a) / (-b)
QDiv(a, b) == IF b < 0 THEN (0 - a) \div (0 - b) ELSE a \div b

\* 1000 * sin(2 pi k / q) for 0 <= 2k <= q
Bhaskara(k, q) == (32000 * k * (q - 2 * k)) \div (5 * q * q - 8 * k * (q - 2 * k))

\* 1000 * sin(2 pi k / q) for every integer k
SinTurn(k, q) ==
    IF 2 * (k % q) <= q THEN Bhaskara(k % q, q)
    ELSE 0 - Bhaskara(2 * (k % q) - q, 2 * q)

\* 1000 * cos(2 pi k / q)
CosTurn(k, q) == SinTurn(4 * k + q, 4 * q)

\* WindowKind::max_attenuation
max_attenuation(window_kind) == 92

\* f64 as usize of a / (22.0 * width), the width in thousandths: the cast
\* rounds towards zero, gives 0 for a negative value and usize::MAX for
\* +infinity; usize::MAX = 2^64 - 1 is written -1
TapEstimate(width_m, window_kind) ==
    IF width_m = 0 THEN -1
    ELSE IF width_m < 0 THEN 0
    ELSE (max_attenuation(window_kind) * 1000) \div (22 * width_m)

\* min_tap_count without the step that makes ntaps odd
min_tap_count_AsEstimated(width_m, window_kind) == TapEstimate(width_m, window_kind)

min_tap_count(width_m, window_kind) ==
    IF TapEstimate(width_m, window_kind) % 2 = 0
    THEN TapEstimate(width_m, window_kind) + 1
    ELSE TapEstimate(width_m, window_kind)

\* window_functions::cos on a buffer of length len; for len = 1 the
\* position x = 0 / 0 is NaN
cos(len, c0, c1, c2, c3) ==
    [i \in 1..len |->
        IF len = 1 THEN NaN
        ELSE Fin(c0 - (c1 * CosTurn(i - 1, len - 1)) \div 1000
                    + (c2 * CosTurn(2 * (i - 1), len - 1)) \div 1000
                    - (c3 * CosTurn(3 * (i - 1), len - 1)) \div 1000)]

blackman_haris(len) == cos(len, 35874, 48829, 14128, 1168)

\* WindowKind::coefficients
coefficients(window_kind, len) == blackman_haris(len)

\* the factor of tap n in -m..m: fw_t0 / PI at the centre and
\* sin(n * fw_t0) / (n * PI) beside it, with fw_t0 = 2 PI cutoff, the cutoff
\* being c.p / c.q, and PI = 355 / 113
SincFactor(n, c) ==
    IF n = 0 THEN (2000 * c.p) \div c.q
    ELSE QDiv(SinTurn(n * c.p, c.q) * 113, n * 355)

\* the loop over n in -m..=m
ApplySinc(buf, m, c) ==
    [i \in 1..Len(buf) |-> FScale(buf[i], SincFactor(i - 1 - m, c))]

\* the sum of 2.0 * buf[i] over i in from..m-1, for finite elements
RECURSIVE SumTwice(_, _, _)
SumTwice(buf, from, m) ==
    IF from >= m THEN 0 ELSE 2 * buf[from + 1].num + SumTwice(buf, from + 1, m)

\* fmax with the centre sample left out
GainDivisor_NoCentre(buf, m) ==
    IF \E i \in 1..(m + 1) : buf[i].class /= "finite" THEN NaN
    ELSE Fin(SumTwice(buf, 0, m))

\* fmax: the middle sample and twice the half before it; NaN if one of them
\* is NaN
GainDivisor(buf, m) ==
    IF \E i \in 1..(m + 1) : buf[i].class /= "finite" THEN NaN
    ELSE Fin(buf[m + 1].num + SumTwice(buf, 0, m))

\* the last loop: every tap times normalized_gain = gain / fmax
Normalize(buf, gain, fmax) == [i \in 1..Len(buf) |-> FMul(buf[i], FDiv(Fin(gain), fmax))]

\* new_lowpass from the window on: the taps of the filter
LowpassTaps(buf, m, gain) == Normalize(buf, gain, GainDivisor(buf, m))

\* FirFilter::new_lowpass: the taps, or no filter when vec! cannot allocate
\* usize::MAX elements (ntaps < 0)
LowpassOfLen(ntaps, gain, c, window_kind) ==
    IF ntaps < 0 THEN [status |-> "alloc", taps |-> <<>>]
    ELSE [status |-> "ok",
          taps |-> LowpassTaps(ApplySinc(coefficients(window_kind, ntaps),
                                         (ntaps - 1) \div 2, c),
                               (ntaps - 1) \div 2, gain)]

new_lowpass(gain, c, width_m, window_kind) ==
    LowpassOfLen(min_tap_count(width_m, window_kind), gain, c, window_kind)

(***************************************************************************)
(* MultistageFir                                                           *)
(***************************************************************************)
\* std::ptr::copy and copy_nonoverlapping: n elements of `from` at index
\* `src` to index `dst` of `into`
CopyInto(into, dst, from, src, n) ==
    [i \in 1..Len(into) |-> IF dst < i /\ i <= dst + n THEN from[src + (i - dst)]
                            ELSE into[i]]

\* MultistageFir::new
MultistageFir_new ==
    [stages |-> <<>>, prev_buffer |-> <<>>, prev_buffer_needs_resize |-> FALSE,
     min_buffer_reserve |-> 0]

\* add_stage without the request to resize prev_buffer
add_stage_NoResize(self, fir_taps_, decim) ==
    [self EXCEPT !.min_buffer_reserve = Max(self.min_buffer_reserve, Len(fir_taps_) - 1),
                 !.stages = Append(self.stages,
                                   [decimation |-> decim, prev_elements |-> 0,
                                    fir |-> fir_taps_])]

\* MultistageFir::add_stage
add_stage(self, fir_taps_, decim) ==
    [self EXCEPT !.min_buffer_reserve = Max(self.min_buffer_reserve, Len(fir_taps_) - 1),
                 !.stages = Append(self.stages,
                                   [decimation |-> decim, prev_elements |-> 0,
                                    fir |-> fir_taps_]),
                 !.prev_buffer_needs_resize = TRUE]

RECURSIVE SumLeftover(_)
SumLeftover(stages) ==
    IF stages = <<>> THEN 0
    ELSE (Len(Head(stages).fir) - 1) + SumLeftover(Tail(stages))

\* Vec::resize(prev_buffer_len, T::zero()): cut, or filled up with zeros
resize_prev_buffer(self) ==
    LET prev_buffer_len == SumLeftover(self.stages)
        old == self.prev_buffer
    IN  [self EXCEPT !.prev_buffer =
                         [i \in 1..prev_buffer_len |-> IF i <= Len(old) THEN old[i] ELSE TZero],
                     !.prev_buffer_needs_resize = FALSE]

min_buffer_reserve(self) == self.min_buffer_reserve

\* elements_count after a stage
StageCount(elements_count, decim, written) == elements_count \div decim

\* The state of apply is a = [self, buffer, work_buf, prev_buf,
\* elements_count, status, log]; log has one record per stage processed, of
\* what the stage was handed and what it did.  For stage k: the move of the working region to
\* the end of the buffer when the carried samples do not fit before it, and
\* the carried samples copied before the working region.
PrependCarried(a, k) ==
    LET prev_elements == a.self.stages[k].prev_elements
        shift == a.work_buf - prev_elements < 0
        shifted == Len(a.buffer) - a.elements_count
        work_buf == (IF shift THEN shifted ELSE a.work_buf) - prev_elements
    IN  [work_buf |-> work_buf,
         moved |-> shift,
         elements_count |-> a.elements_count + prev_elements,
         buffer |-> IF work_buf < 0 THEN a.buffer
                    ELSE CopyInto(IF shift
                                  THEN CopyInto(a.buffer, shifted, a.buffer, a.work_buf,
                                                a.elements_count)
                                  ELSE a.buffer,
                                  work_buf, a.self.prev_buffer, a.prev_buf, prev_elements)]

\* the record of stage k in the log: the region [work_buf, work_buf + len)
\* the filter was applied to, whether the working region was moved to the end
\* of the buffer first, the slice of prev_buffer of the stage (prev_buf) and
\* the length of prev_buffer, the outputs the filter wrote, the samples left,
\* the count handed to the next stage, and the access that left the buffer
StageRecord(a, k, p, written, left, fault) ==
    [work_buf |-> p.work_buf, len |-> p.elements_count, moved |-> p.moved,
     prev_buf |-> a.prev_buf, prev_buffer_len |-> Len(a.self.prev_buffer),
     prev_elements |-> a.self.stages[k].prev_elements,
     written |-> written, left |-> left,
     handed |-> StageCount(p.elements_count, a.self.stages[k].decimation, written),
     fault |-> fault]

\* the stage saving every sample it was applied to
SaveLeftover_KeepsAll(a, k, p, f) ==
    IF f.pc = "fault"
    THEN [a EXCEPT !.status = "fault",
                   !.log = Append(a.log, StageRecord(a, k, p, 0, 0, "past_region"))]
    ELSE [a EXCEPT
            !.log = Append(a.log, StageRecord(a, k, p, f.dst_i, p.elements_count, "none")),
            !.buffer = f.mem,
            !.work_buf = p.work_buf,
            !.self.stages[k].prev_elements = p.elements_count,
            !.elements_count = StageCount(p.elements_count, a.self.stages[k].decimation,
                                          f.dst_i),
            !.prev_buf = a.prev_buf + (Len(a.self.stages[k].fir) - 1)]

\* the new leftover samples saved and the counts of the stage updated, f
\* being the in-place call of the stage's filter on the region p
SaveLeftover(a, k, p, f) ==
    IF f.pc = "fault"
    THEN [a EXCEPT !.status = "fault",
                   !.log = Append(a.log, StageRecord(a, k, p, 0, 0, "past_region"))]
    ELSE [a EXCEPT
            !.log = Append(a.log, StageRecord(a, k, p, f.dst_i, f.ret, "none")),
            !.buffer = f.mem,
            !.work_buf = p.work_buf,
            !.self.prev_buffer =
                CopyInto(a.self.prev_buffer, a.prev_buf, f.mem,
                         p.work_buf + p.elements_count - f.ret, f.ret),
            !.self.stages[k].prev_elements = f.ret,
            !.elements_count = StageCount(p.elements_count, a.self.stages[k].decimation,
                                          f.dst_i),
            !.prev_buf = a.prev_buf + (Len(a.self.stages[k].fir) - 1)]

\* the filter of stage k applied in place to the region p; a region that
\* starts before the buffer is a write outside it, status "fault"
FilterStage(a, k, p) ==
    IF p.work_buf < 0
    THEN [a EXCEPT !.status = "fault",
                   !.log = Append(a.log, StageRecord(a, k, p, 0, 0, "before_buffer"))]
    ELSE SaveLeftover(a, k, p,
                      FirFilter_apply(p.buffer, p.work_buf, p.work_buf, p.elements_count,
                                      a.self.stages[k].decimation, a.self.stages[k].fir))

\* one iteration of the loop over the stages
ApplyStage(a, k) == FilterStage(a, k, PrependCarried(a, k))

RECURSIVE ApplyStages(_, _)
ApplyStages(a, k) ==
    IF k > Len(a.self.stages) \/ a.status /= "ok" THEN a
    ELSE ApplyStages(ApplyStage(a, k), k + 1)

\* the assertion of apply left out
AssertReserve_Off(self, buffer_reserve_size) == TRUE

\* assert!(buffer_reserve_size >= self.min_buffer_reserve)
AssertReserve(self, buffer_reserve_size) == buffer_reserve_size >= self.min_buffer_reserve

\* what apply returns in the state a, with the filter and the buffer
Applied(a) ==
    [self |-> a.self, buffer |-> a.buffer, start |-> a.work_buf,
     count |-> a.elements_count, status |-> a.status, log |-> a.log]

\* MultistageFir::apply: the filter and the buffer after the call, the pair
\* (start, count) it returns, and status "ok", "panic" (the assertion) or
\* "fault" (buffer.len() - buffer_reserve_size overflows as len - side_len
\* does in FirFilter::apply, with work_buf past the end of the buffer)
MultistageFir_apply(self, buffer, buffer_reserve_size) ==
    IF ~AssertReserve(self, buffer_reserve_size)
    THEN [self |-> self, buffer |-> buffer, start |-> 0, count |-> 0, status |-> "panic",
          log |-> <<>>]
    ELSE IF Len(buffer) < buffer_reserve_size
    THEN [self |-> self, buffer |-> buffer, start |-> 0, count |-> 0, status |-> "fault",
          log |-> <<>>]
    ELSE Applied(ApplyStages([self |-> IF self.prev_buffer_needs_resize
                                       THEN resize_prev_buffer(self) ELSE self,
                              buffer |-> buffer,
                              work_buf |-> buffer_reserve_size, prev_buf |-> 0,
                              elements_count |-> Len(buffer) - buffer_reserve_size,
                              status |-> "ok", log |-> <<>>], 1))

(***************************************************************************)
(* The constructors of MultistageFir.  An Rc<FirFilter> is an index into   *)
(* the sequence `heap` of the objects made by Rc::new so far; the cache is *)
(* a sequence of [factor, rc].                                             *)
(***************************************************************************)
\* LOWPASS_TRANSITION_WIDTH, in thousandths
LOWPASS_TRANSITION_WIDTH == 50

\* FirFilter::new_lowpass(gain, cutoff, width, window_kind) as an object of
\* the heap: the arguments, which determine the taps, and the number of taps
Lowpass(gain, c, width_m, window_kind) ==
    [gain |-> gain, cutoff |-> c, width_m |-> width_m, window_kind |-> window_kind,
     len |-> min_tap_count(width_m, window_kind)]

\* add_stage, with the filter behind its Rc
add_stage_Rc(self, heap, rc, decim) ==
    [self EXCEPT !.min_buffer_reserve = Max(self.min_buffer_reserve, heap[rc].len - 1),
                 !.stages = Append(self.stages,
                                   [decimation |-> decim, prev_elements |-> 0,
                                    fir |-> rc]),
                 !.prev_buffer_needs_resize = TRUE]

\* current_factor * F does not fit into a u32: it is 2^32 / F or more
MulOverflows(current_factor, F) == current_factor >= (Pow2(16) \div F) * Pow2(16)

\* a search of the cache that finds nothing
CacheIndex_Miss(cache, F) == 0

\* cache.iter().position(|&(factor, _)| factor == F), from 1, or 0 for None
CacheIndex(cache, F) ==
    IF \E i \in 1..Len(cache) : cache[i].factor = F
    THEN CHOOSE i \in 1..Len(cache) :
            /\ cache[i].factor = F
            /\ \A j \in 1..(i - 1) : cache[j].factor /= F
    ELSE 0

\* The state of the cached constructor is b = [s, current_factor, cache,
\* heap, already_found, status].
\* the end of the loop body: current_factor *= F and s.add_stage(fir, F)
Staged(b, F, rc, cache, heap, already_found) ==
    [b EXCEPT !.current_factor = b.current_factor * F,
              !.s = add_stage_Rc(b.s, heap, rc, F),
              !.cache = cache, !.heap = heap, !.already_found = already_found]

\* the filter of a stage: the one of the last round, the one of the cache, or
\* a new one that is pushed to the cache
Found(b, F, window_kind, found) ==
    IF b.already_found /= None
    THEN Staged(b, F, Unwrap(b.already_found), b.cache, b.heap, b.already_found)
    ELSE IF found > 0
    THEN Staged(b, F, b.cache[found].rc, b.cache, b.heap, None)
    ELSE Staged(b, F, Len(b.heap) + 1,
                Append(b.cache, [factor |-> F, rc |-> Len(b.heap) + 1]),
                Append(b.heap, Lowpass(1, [p |-> 1, q |-> F], LOWPASS_TRANSITION_WIDTH,
                                       window_kind)),
                Some(Len(b.heap) + 1))

\* the loop going on while current_factor * F <= decimation_factor
RECURSIVE TryFactorLoop_UpTo(_, _, _, _)
TryFactorLoop_UpTo(b, F, decimation_factor, window_kind) ==
    IF b.status /= "ok" THEN b
    ELSE IF MulOverflows(b.current_factor, F) THEN [b EXCEPT !.status = "overflow"]
    ELSE IF b.current_factor * F <= decimation_factor
    THEN TryFactorLoop_UpTo(Found(b, F, window_kind, CacheIndex(b.cache, F)), F,
                            decimation_factor, window_kind)
    ELSE b

\* while current_factor * F < decimation_factor.  The product is checked
\* for overflow in a build with overflow checks and wraps to 0 in one
\* without: then 0 < decimation_factor holds in every later round.
RECURSIVE TryFactorLoop(_, _, _, _)
TryFactorLoop(b, F, decimation_factor, window_kind) ==
    IF b.status /= "ok" THEN b
    ELSE IF MulOverflows(b.current_factor, F) THEN [b EXCEPT !.status = "overflow"]
    ELSE IF b.current_factor * F < decimation_factor
    THEN TryFactorLoop(Found(b, F, window_kind, CacheIndex(b.cache, F)), F,
                       decimation_factor, window_kind)
    ELSE b

\* try_factor!(F)
try_factor(b, F, decimation_factor, window_kind) ==
    TryFactorLoop([b EXCEPT !.already_found = None], F, decimation_factor, window_kind)

\* assert!(!s.stages.is_empty())
AssertStages(b) ==
    IF b.status = "ok" /\ b.s.stages = <<>> THEN [b EXCEPT !.status = "assert"] ELSE b

\* MultistageFir::new_multistage_decim_imprecise_cached
new_multistage_decim_imprecise_cached(decimation_factor, window_kind, cache, heap) ==
    AssertStages(
      try_factor(
        try_factor(
          try_factor(
            try_factor(
              try_factor([s |-> MultistageFir_new, current_factor |-> 1,
                          cache |-> cache, heap |-> heap, already_found |-> None,
                          status |-> "ok"],
                         256, decimation_factor, window_kind),
              128, decimation_factor, window_kind),
            64, decimation_factor, window_kind),
          32, decimation_factor, window_kind),
        16, decimation_factor, window_kind))

\* the quotient rounded up
remaining_decimation_Up(decimation_factor, achieved_decimation) ==
    (decimation_factor + achieved_decimation - 1) \div achieved_decimation

\* remaining_decimation = decimation_factor / achieved_decimation
remaining_decimation(decimation_factor, achieved_decimation) ==
    decimation_factor \div achieved_decimation

\* the factor returned, were it the one of the cached stages
TotalDecimation_Achieved(achieved_decimation, remaining) ==
    achieved_decimation

\* achieved_decimation * remaining_decimation
TotalDecimation(achieved_decimation, remaining) ==
    achieved_decimation * remaining

\* the final stage and the pair returned: [filter, factor], with the cache
\* and the heap as the call leaves them, the factor asked for, the number of
\* stages the cached constructor made, and how the call ended
FinalStage(b, decimation_factor, window_kind, c, width_m, remaining) ==
    IF remaining > 0 \/ 2 * c.p < c.q
    THEN [filter |-> add_stage_Rc(b.s, Append(b.heap, Lowpass(1, c, width_m, window_kind)),
                                  Len(b.heap) + 1, Max(remaining, 1)),
          factor |-> TotalDecimation(b.current_factor, remaining),
          cache |-> b.cache,
          heap |-> Append(b.heap, Lowpass(1, c, width_m, window_kind)),
          asked |-> decimation_factor, achieved |-> b.current_factor,
          cached |-> Len(b.s.stages), status |-> "ok"]
    ELSE [filter |-> b.s,
          factor |-> TotalDecimation(b.current_factor, remaining),
          cache |-> b.cache, heap |-> b.heap,
          asked |-> decimation_factor, achieved |-> b.current_factor,
          cached |-> Len(b.s.stages), status |-> "ok"]

Precise(b, decimation_factor, window_kind, c, width_m) ==
    IF b.status /= "ok"
    THEN [filter |-> b.s, factor |-> 0, cache |-> b.cache, heap |-> b.heap,
          asked |-> decimation_factor, achieved |-> b.current_factor,
          cached |-> Len(b.s.stages), status |-> b.status]
    ELSE FinalStage(b, decimation_factor, window_kind, c, width_m,
                    remaining_decimation(decimation_factor, b.current_factor))

\* MultistageFir::new_multistage_decim_precise
new_multistage_decim_precise(decimation_factor, window_kind, cache, heap, c, width_m) ==
    Precise(new_multistage_decim_imprecise_cached(decimation_factor, window_kind,
                                                  cache, heap),
            decimation_factor, window_kind, c, width_m)

(***************************************************************************)
(* decode_baudot                                                           *)
(***************************************************************************)
ITA2_letters ==
    <<0, 69, 10, 65, 32, 83, 73, 85, 13, 68, 82, 74, 78, 70, 67, 75,
      84, 90, 76, 87, 72, 89, 80, 81, 79, 66, 71, 0, 77, 88, 86, 0>>
ITA2_figures ==
    <<0, 51, 10, 45, 32, 7, 56, 55, 13, 5, 52, 39, 44, 33, 58, 40,
      53, 34, 41, 50, 35, 54, 48, 49, 57, 63, 38, 0, 46, 47, 59, 0>>

BaudotResult(some, ch, l) == [some |-> some, ch |-> ch, letters |-> l, panic |-> FALSE]

\* decode_baudot with the figures-shift arm setting letters mode
decode_baudot_ShiftArmsAlike(code, lettersIn) ==
    IF code \in {27, 31} THEN BaudotResult(FALSE, 0, TRUE)
    ELSE BaudotResult(TRUE, (IF lettersIn THEN ITA2_letters ELSE ITA2_figures)[code + 1],
                      lettersIn)

\* decode_baudot with both table arms reading the letters table
decode_baudot_LettersOnly(code, lettersIn) ==
    IF code = 31 THEN BaudotResult(FALSE, 0, TRUE)
    ELSE IF code = 27 THEN BaudotResult(FALSE, 0, FALSE)
    ELSE BaudotResult(TRUE, ITA2_letters[code + 1], lettersIn)

\* The result: some = FALSE is None; ch is the byte pushed; letters is the
\* shift state after the call; panic is an index outside the table.
decode_baudot(code, lettersIn) ==
    IF code = 31 THEN [some |-> FALSE, ch |-> 0, letters |-> TRUE, panic |-> FALSE]
    ELSE IF code = 27 THEN [some |-> FALSE, ch |-> 0, letters |-> FALSE, panic |-> FALSE]
    ELSE IF lettersIn
         THEN IF code + 1 \in DOMAIN ITA2_letters
              THEN [some |-> TRUE, ch |-> ITA2_letters[code + 1],
                    letters |-> lettersIn, panic |-> FALSE]
              ELSE [some |-> FALSE, ch |-> 0, letters |-> lettersIn, panic |-> TRUE]
         ELSE IF code + 1 \in DOMAIN ITA2_figures
              THEN [some |-> TRUE, ch |-> ITA2_figures[code + 1],
                    letters |-> lettersIn, panic |-> FALSE]
              ELSE [some |-> FALSE, ch |-> 0, letters |-> lettersIn, panic |-> TRUE]

(***************************************************************************)
(* The bit extractor of decode (the first loop)                            *)
(***************************************************************************)
\* The sign bit of the f32 value im = a.re * b.im + a.im * b.re of the product
\* conj(prev) * cur, where conj(prev) = (prev.re, -prev.im).  A zero part of a
\* sample is +0.0, so -prev.im is -0.0 when prev.im is zero; the sum of two
\* zeros is -0.0 only when both are -0.0, and an exact cancellation is +0.0.
NegZeroProduct(xNeg, x, yNeg, y) == (x = 0 \/ y = 0) /\ (xNeg /= yNeg)

ImSignBit(prev, cur) ==
    LET t1 == prev[1] * cur[2]
        t2 == (0 - prev[2]) * cur[1]
        t1NegZero == NegZeroProduct(prev[1] < 0, prev[1], cur[2] < 0, cur[2])
        t2NegZero == NegZeroProduct(prev[2] >= 0, prev[2], cur[1] < 0, cur[1])
    IN  IF t1 + t2 /= 0 THEN t1 + t2 < 0
        ELSE t1 = 0 /\ t2 = 0 /\ t1NegZero /\ t2NegZero

\* AngleBit with the sign of the angle taken the other way round
AngleBit_Negative(prev, cur) == ImSignBit(prev, cur)

\* angle.is_sign_positive() for angle = (prev.conj() * cur).arg(): atan2 gives
\* its result the sign of the imaginary part.
AngleBit(prev, cur) == ~ImSignBit(prev, cur)

\* new_bits[i] for every sample, prev starting at 1 + 0i in every call
RECURSIVE ExtractBits(_, _)
ExtractBits(prev, smp) ==
    IF smp = <<>> THEN <<>>
    ELSE <<AngleBit(prev, Head(smp))>> \o ExtractBits(Head(smp), Tail(smp))

\* the buffer after the first loop: bits[bits_offset + i] written for each i
WriteBits(buf, off, new) ==
    [i \in 1..Len(buf) |->
        IF i > off /\ i <= off + Len(new) THEN new[i - off] ELSE buf[i]]

(***************************************************************************)
(* The frame scanner of decode (the 'decode_chars loop)                    *)
(***************************************************************************)
\* (samplerate / baudrate) as usize, (samples_per_symbol_f / 2.0) as usize and
\* (samples_per_symbol_f * stop_bits) as usize
samples_per_symbol(c) == (4 * c.samplerate) \div c.baud_q
half_samples_per_symbol(c) == (4 * c.samplerate) \div (2 * c.baud_q)
samples_per_stop_bit(c) == (c.samplerate * c.stop_q) \div c.baud_q

\* bits_end = bits.add(samples_len)
BitsEnd(smp) == Len(smp)

\* stopbit = cursor.add(6 * samples_per_symbol)
StopBitStart(p, c) == p + 6 * samples_per_symbol(c)

\* SkipTarget without the stop window
SkipTarget_DataOnly(p, c) == p + 6 * samples_per_symbol(c)

\* where the cursor goes when the stop window of the candidate at p is wrong
SkipTarget(p, c) == p + 6 * samples_per_symbol(c) + samples_per_stop_bit(c)

\* the middle of the first data pulse of the frame whose start bit is at p
FirstDataBit(p, c) == p + samples_per_symbol(c) + half_samples_per_symbol(c)

\* the 5-bit value read from `first` on: value = !*cursor, char |= value << i
RECURSIVE CharBits(_, _, _, _)
CharBits(buf, first, sps, i) ==
    IF i = 5 THEN 0
    ELSE (IF buf[first + i * sps + 1] THEN 0 ELSE Pow2(i))
         + CharBits(buf, first, sps, i + 1)

NoCall == [code |-> -1, letters_in |-> TRUE, some |-> FALSE, ch |-> 0,
           letters_out |-> TRUE, at |-> -1]

\* The scanner's state is s = [cursor, pc, string, letters, resync, last].
\* The inner loop looking for a start bit; pc "oob" is a read of *cursor
\* outside the buffer.
SeekStep(buf, end, s) ==
    IF s.cursor = end THEN [s EXCEPT !.pc = "done"]
    ELSE IF s.cursor >= Len(buf) THEN [s EXCEPT !.pc = "oob"]
    ELSE IF buf[s.cursor + 1] THEN [s EXCEPT !.pc = "check"]
    ELSE [s EXCEPT !.cursor = s.cursor + 1]

\* the bounds check and the stop window check of the candidate at the cursor
CheckStep(buf, end, c, s) ==
    LET stopbit == StopBitStart(s.cursor, c)
        stop == samples_per_stop_bit(c)
    IN  IF stopbit + stop > end THEN [s EXCEPT !.pc = "done"]
        ELSE IF \E j \in 0..(stop - 1) : buf[stopbit + j + 1]
             THEN [s EXCEPT !.cursor = SkipTarget(s.cursor, c),
                            !.pc = "seek",
                            !.resync = SkipTarget(s.cursor, c)]
             ELSE [s EXCEPT !.pc = "extract"]

\* the five data bits and the Baudot lookup
ExtractStep(buf, c, s) ==
    LET sps == samples_per_symbol(c)
        first == FirstDataBit(s.cursor, c)
        char == CharBits(buf, first, sps, 0)
        r == decode_baudot(char, s.letters)
    IN  [s EXCEPT !.cursor = first + 5 * sps,
                  !.pc = "seek",
                  !.string = IF r.some THEN Append(s.string, r.ch) ELSE s.string,
                  !.letters = r.letters,
                  !.last = [code |-> char, letters_in |-> s.letters,
                            some |-> r.some, ch |-> r.ch,
                            letters_out |-> r.letters, at |-> s.cursor]]

DecStep(buf, end, c, s) ==
    CASE s.pc = "seek" -> SeekStep(buf, end, s)
      [] s.pc = "check" -> CheckStep(buf, end, c, s)
      [] s.pc = "extract" -> ExtractStep(buf, c, s)
      [] OTHER -> s

RECURSIVE DecRun(_, _, _, _, _)
DecRun(buf, end, c, s, fuel) ==
    IF s.pc \in {"done", "oob"} \/ fuel = 0 THEN s
    ELSE DecRun(buf, end, c, DecStep(buf, end, c, s), fuel - 1)

\* enough steps for a call that moves its cursor forward in every iteration
Fuel(buf) == 3 * Len(buf) + 3

\* The 'decode_chars loop on the bit buffer b as the first loop left it: the
\* state at the return of decode, and the leftover count
\* bits_end.offset_from(cursor) as usize (a negative value d stands for the
\* wrapped 2^64 + d).
Returned(s, b, end) ==
    [string |-> s.string, cursor |-> s.cursor, left |-> end - s.cursor,
     letters |-> s.letters, pc |-> s.pc, bits |-> b, resync |-> s.resync,
     last |-> s.last]

decode_chars(b, end, c, lettersIn) ==
    Returned(DecRun(b, end, c,
                    [cursor |-> 0, pc |-> "seek", string |-> <<>>,
                     letters |-> lettersIn, resync |-> -1, last |-> NoCall],
                    Fuel(b)),
             b, end)

\* decode as a function of its arguments
decode(smp, buf, off, c, lettersIn) ==
    decode_chars(WriteBits(buf, off, ExtractBits(<<1, 0>>, smp)), BitsEnd(smp), c,
                 lettersIn)

(***************************************************************************)
(* Decoder and the receive loop of DeviceWorker                            *)
(***************************************************************************)
\* size_of::<Complex<RxFormat>>() in units of size_of::<bool>()
SampleBytes == 8

\* A sample of working_memory whose bytes hold bools written through the
\* *mut bool alias of the buffer.  A bit extracted from such a sample is any
\* bit.
Punned == <<>>

\* Decoder::new_baudot, the rates in quarters as in the arguments of decode
\* and the frequency shift in Hz
new_baudot(baudrate_q, stop_q, shift) ==
    [baudrate_q |-> baudrate_q, stop_q |-> stop_q, shift |-> shift,
     letters |-> TRUE, leftover_bits |-> <<>>, decim |-> 0]

\* Vec::resize(n, Complex::zero())
Resize(v, n) == [i \in 1..n |-> IF i <= Len(v) THEN v[i] ELSE TZero]

\* the number of samples whose bytes n bools reach into
bits_len_as_complex(n) == IF n = 0 THEN 0 ELSE (n - 1) \div SampleBytes + 1

\* the samples from index 0 on whose bytes n bools reach into, punned
PunCells(mem, n) ==
    [i \in 1..Len(mem) |-> IF i <= bits_len_as_complex(n) THEN Punned ELSE mem[i]]

\* The arguments process calls decode with: *baudrate is passed in the place
\* of the parameter stop_bits and *stop_bits in the place of baudrate, and
\* samplerate is the rate of the receiver.
DecodeArgs(dec, rate) ==
    [samplerate |-> rate, baud_q |-> dec.stop_q, stop_q |-> dec.baudrate_q]

\* process up to the call of decode on w = [working_memory,
\* memory_receive_offset, memory_received_count, current_fir_filter]: the
\* filter over the slice [..memory_received_count], the move of the filtered
\* samples behind the leftover bits, and the copy of the leftover bits to
\* the start of the buffer
Prepared(dec, w, r) ==
    LET mem1 == r.buffer \o SubSeq(w.working_memory, w.memory_received_count + 1,
                                   Len(w.working_memory))
        n == Len(dec.leftover_bits)
        resized == Resize(mem1, Max(Len(mem1), bits_len_as_complex(n) + r.count))
    IN  [status |-> r.status, filter |-> r.self, start |-> r.start, count |-> r.count,
         buffer_len |-> w.memory_received_count, reserve |-> w.memory_receive_offset,
         mem |-> IF r.status /= "ok" THEN w.working_memory
                 ELSE IF n > r.start * SampleBytes
                 THEN PunCells(CopyInto(resized, bits_len_as_complex(n), resized,
                                        r.start, r.count), n)
                 ELSE PunCells(mem1, n)]

BeforeDecode(dec, w) ==
    Prepared(dec, w,
             MultistageFir_apply(w.current_fir_filter,
                                 SubSeq(w.working_memory, 1, w.memory_received_count),
                                 w.memory_receive_offset))

\* sample i (from 0) is read by the first loop of decode after it wrote the
\* bools off .. off + i - 1: it is read as the filter left it when none of
\* them, nor a bool written before, lies in its bytes
ReadClean(mem, off, i) == mem[i + 1] /= Punned /\ off + i <= SampleBytes * i

\* bit i depends on sample i and, from the second on, on the sample before
BitKnown(mem, off, i) ==
    ReadClean(mem, off, i) /\ (i = 0 \/ ReadClean(mem, off, i - 1))

\* what the first loop of decode can write for the samples mem
NewBits(mem, off) ==
    LET unknown == {i \in 0..(Len(mem) - 1) : ~BitKnown(mem, off, i)}
    IN  {[k \in 1..Len(mem) |->
            IF BitKnown(mem, off, k - 1)
            THEN AngleBit(IF k = 1 THEN <<1, 0>> ELSE mem[k - 1], mem[k])
            ELSE (k - 1) \in true] : true \in SUBSET unknown}

(***************************************************************************)
(* Bit streams and signals the decoder is driven with                      *)
(***************************************************************************)
\* a signal whose extracted bits are bs: each sample is the one before it
\* turned by +90 degrees (bit true) or -90 degrees (bit false)
RECURSIVE Synth(_, _)
Synth(prev, bs) ==
    IF bs = <<>> THEN <<>>
    ELSE LET cur == IF Head(bs) THEN <<0 - prev[2], prev[1]>>
                    ELSE <<prev[2], 0 - prev[1]>>
         IN  <<cur>> \o Synth(cur, Tail(bs))


CodeBit(code, i) == (code \div Pow2(i)) % 2 = 1

\* one frame with exact symbol timing: the start bit, the five data bits least
\* significant first and stored inverted, each held for samples_per_symbol
\* bits, then the stop window
Frame(code, c, stopWindow) ==
    LET sps == samples_per_symbol(c)
    IN  Rep(TRUE, sps)
        \o Rep(~CodeBit(code, 0), sps) \o Rep(~CodeBit(code, 1), sps)
        \o Rep(~CodeBit(code, 2), sps) \o Rep(~CodeBit(code, 3), sps)
        \o Rep(~CodeBit(code, 4), sps)
        \o stopWindow

RECURSIVE FrameStream(_, _, _)
FrameStream(codes, c, gap) ==
    IF codes = <<>> THEN <<>>
    ELSE Rep(FALSE, gap)
         \o Frame(Head(codes), c, Rep(FALSE, samples_per_stop_bit(c)))
         \o FrameStream(Tail(codes), c, gap)

\* what the ITA2 tables give for a code sequence under shift tracking
RECURSIVE Ita2Text(_, _)
Ita2Text(codes, lettersIn) ==
    IF codes = <<>> THEN [string |-> <<>>, letters |-> lettersIn]
    ELSE LET code == Head(codes)
             shift == IF code = 31 THEN TRUE ELSE IF code = 27 THEN FALSE ELSE lettersIn
             rest == Ita2Text(Tail(codes), shift)
         IN  IF code \in {27, 31} THEN rest
             ELSE [string |-> <<(IF lettersIn THEN ITA2_letters ELSE ITA2_figures)[code + 1]>>
                                 \o rest.string,
                   letters |-> rest.letters]

(***************************************************************************)
(* The parts a specification does not exercise stay as constructed.        *)
(***************************************************************************)
DecIdle ==
    /\ conf = [samplerate |-> 1, baud_q |-> 4, stop_q |-> 4]
    /\ samples = <<>>
    /\ bits = <<>>
    /\ bits_offset = 0
    /\ cursor = 0
    /\ pc = "idle"
    /\ string = <<>>
    /\ letters = TRUE
    /\ feed = [whole |-> <<>>, rest |-> <<>>, codes |-> <<>>, letters0 |-> TRUE,
               call |-> 0]
    /\ emitted = <<>>
    /\ resync = -1
    /\ last = NoCall

FirIdle ==
    /\ fir_taps = <<1>>
    /\ fir_decim = 1
    /\ fir_len = 0
    /\ fir = [mem |-> <<>>, src_i |-> 0, dst_i |-> 0, acc |-> TZero, pc |-> "idle",
              ret |-> 0]
    /\ input = [orig |-> <<>>, whole |-> <<>>, rest |-> <<>>, call |-> 0]
    /\ outputs = <<>>

MsIdle ==
    /\ filter = MultistageFir_new
    /\ batch_buffer = <<>>
    /\ applied = [start |-> 0, count |-> 0, status |-> "idle", log |-> <<>>]
    /\ batches = [whole |-> <<>>, rest |-> <<>>, call |-> 0, reserve |-> 0,
                  stale |-> TZero, added |-> FALSE]
    /\ decimated = <<>>

NotProcessed ==
    [status |-> "none", buffer_len |-> 0, reserve |-> 0, start |-> 0, count |-> 0,
     samples |-> <<>>, conf |-> [samplerate |-> 1, baud_q |-> 4, stop_q |-> 4],
     bits_offset |-> 0, bits |-> <<>>, cursor |-> 0, left |-> 0, tail |-> <<>>]

\* DeviceWorker::new, the fields the configuring commands read and write
DeviceWorker_new ==
    [device |-> FALSE, receive_state |-> None, mtu |-> 0, decoder |-> None,
     working_memory_len |-> 0, memory_receive_offset |-> 0,
     decimation_fir_cache |-> <<>>, current_fir_filter |-> None]

LpIdle == lowpass = [pc |-> "idle"]

\* no manager and no worker thread: nothing sent, nothing received
MgrIdle ==
    /\ manager = [pc |-> "idle"]
    /\ device_commands = <<>>
    /\ gui_events = <<>>
    /\ device_worker = [pc |-> "idle"]

\* no task queue
PoolIdle ==
    /\ stop_flag = FALSE
    /\ queue = <<>>
    /\ simple_worker = [pc |-> "idle"]

SetIdle ==
    /\ config_text = <<>>
    /\ lines = <<>>
    /\ parser = [pc |-> "idle"]

LoopIdle ==
    /\ thread = [pc |-> "idle"]
    /\ receive_enable_flag = FALSE
    /\ batch = [id |-> 0]

CfgIdle ==
    /\ worker = DeviceWorker_new
    /\ rc_heap = <<>>
    /\ built = <<>>
    /\ worker_thread = "idle"

WkIdle ==
    /\ working_memory = <<>>
    /\ mtu = 0
    /\ memory_receive_offset = 0
    /\ memory_received_count = 0
    /\ samplerate = 1
    /\ current_fir_filter = MultistageFir_new
    /\ decoder = new_baudot(4, 4, 0)
    /\ sender = <<>>
    /\ signal = <<>>
    /\ reads = 0
    /\ processed = NotProcessed
    /\ worker_pc = "idle"

(***************************************************************************)
(* decode, step by step, called by a caller that keeps the shift state and *)
(* hands the unconsumed tail back with the next batch                      *)
(***************************************************************************)
DecState ==
    [cursor |-> cursor, pc |-> pc, string |-> string, letters |-> letters,
     resync |-> resync, last |-> last]

SetDecState(s) ==
    /\ cursor' = s.cursor
    /\ pc' = s.pc
    /\ string' = s.string
    /\ letters' = s.letters
    /\ resync' = s.resync
    /\ last' = s.last

\* a call of decode on a first batch `first`, `rest` still to come
StartCall(c, whole, split, codes, l) ==
    /\ conf = c
    /\ samples = Synth(<<1, 0>>, SubSeq(whole, 1, split))
    /\ bits = Rep(FALSE, split)
    /\ bits_offset = 0
    /\ cursor = 0
    /\ pc = "demod"
    /\ string = <<>>
    /\ letters = l
    /\ feed = [whole |-> whole, rest |-> SubSeq(whole, split + 1, Len(whole)),
               codes |-> codes, letters0 |-> l, call |-> 1]
    /\ emitted = <<>>
    /\ resync = -1
    /\ last = NoCall

\* any bit sequence, cut anywhere
InitFree ==
    \E c \in Confs, whole \in SeqsUpTo(BOOLEAN, MaxBits), l \in BOOLEAN :
        \E split \in 0..Len(whole) : StartCall(c, whole, split, <<>>, l)

\* the configurations that give a symbol at least one bit, and those with
\* four bits per symbol
FrameConfs ==
    {c \in Confs : samples_per_symbol(c) >= 1}
        \cup [samplerate : {8}, baud_q : BaudRatesQ, stop_q : StopBitsQ]

\* stop windows: all false (valid), all true, only the last bit true
StopWindows(n) == {Rep(FALSE, n), Rep(TRUE, n), [i \in 1..n |-> i = n]}

\* a frame with any of these stop windows, idle bits, then a valid frame
InitResync ==
    \E c \in FrameConfs, code1 \in {0, 14, 31}, code2 \in 0..31,
       gap \in 0..MaxGap, l \in BOOLEAN :
        \E w \in StopWindows(samples_per_stop_bit(c)) :
            LET whole == Frame(code1, c, w) \o Rep(FALSE, gap)
                         \o Frame(code2, c, Rep(FALSE, samples_per_stop_bit(c)))
                valid == IF \E i \in 1..Len(w) : w[i] THEN <<code2>> ELSE <<code1, code2>>
            IN  StartCall(c, whole, Len(whole), valid, l)

InitDecode == InitFree \/ InitResync

\* the first loop of decode
Demod ==
    /\ pc = "demod"
    /\ bits' = WriteBits(bits, bits_offset, ExtractBits(<<1, 0>>, samples))
    /\ pc' = "seek"
    /\ UNCHANGED <<conf, samples, bits_offset, cursor, string, letters, feed,
                   emitted, resync, last>>
    /\ UNCHANGED notDec

Seek ==
    /\ pc = "seek"
    /\ SetDecState(SeekStep(bits, BitsEnd(samples), DecState))
    /\ UNCHANGED <<conf, samples, bits, bits_offset, feed, emitted>>
    /\ UNCHANGED notDec

Check ==
    /\ pc = "check"
    /\ SetDecState(CheckStep(bits, BitsEnd(samples), conf, DecState))
    /\ UNCHANGED <<conf, samples, bits, bits_offset, feed, emitted>>
    /\ UNCHANGED notDec

Extract ==
    /\ pc = "extract"
    /\ Len(string) < MaxString
    /\ SetDecState(ExtractStep(bits, conf, DecState))
    /\ UNCHANGED <<conf, samples, bits, bits_offset, feed, emitted>>
    /\ UNCHANGED notDec

\* the leftover count decode returns
Left == BitsEnd(samples) - cursor

\* The caller takes the text, keeps the shift state, and calls decode again
\* with the unconsumed tail followed by the next batch.
NextCall ==
    /\ pc = "done"
    /\ feed.call = 1
    /\ Left >= 0
    /\ LET tail == SubSeq(bits, cursor + 1, cursor + Left)
       IN  /\ bits' = tail \o Rep(FALSE, Len(feed.rest))
           /\ bits_offset' = Len(tail)
    /\ samples' = Synth(<<1, 0>>, feed.rest)
    /\ emitted' = emitted \o string
    /\ feed' = [feed EXCEPT !.rest = <<>>, !.call = 2]
    /\ cursor' = 0
    /\ string' = <<>>
    /\ pc' = "demod"
    /\ resync' = -1
    /\ UNCHANGED <<conf, letters, last>>
    /\ UNCHANGED notDec

NextDecode == Demod \/ Seek \/ Check \/ Extract \/ NextCall

InitSpecDecode == InitDecode /\ FirIdle /\ MsIdle /\ WkIdle /\ LpIdle /\ CfgIdle /\ LoopIdle /\ SetIdle /\ MgrIdle /\ PoolIdle

SpecDecode == InitSpecDecode /\ [][NextDecode]_vars

(***************************************************************************)
(* decode called once on a stream of frames with exact symbol timing       *)
(***************************************************************************)
InitFrames ==
    \E c \in FrameConfs, codes \in SeqsUpTo(0..31, MaxCodes),
       gap \in {0, MaxGap}, l \in BOOLEAN :
        LET whole == FrameStream(codes, c, gap)
        IN  StartCall(c, whole, Len(whole), codes, l)

\* one whole call of decode
DecodeAll ==
    /\ pc = "demod"
    /\ LET r == decode(samples, bits, bits_offset, conf, letters)
       IN  /\ bits' = r.bits
           /\ SetDecState(r)
    /\ UNCHANGED <<conf, samples, bits_offset, feed, emitted>>
    /\ UNCHANGED notDec

InitSpecFrames == InitFrames /\ FirIdle /\ MsIdle /\ WkIdle /\ LpIdle /\ CfgIdle /\ LoopIdle /\ SetIdle /\ MgrIdle /\ PoolIdle

SpecFrames == InitSpecFrames /\ [][DecodeAll]_vars

(***************************************************************************)
(* FirFilter::apply in place (dst = src), step by step, called by a caller *)
(* that puts the samples apply returned the count of before the next chunk *)
(***************************************************************************)
SampleVals == {<<1, 0>>, <<0, 1>>}
TapSets == {<<1>>, <<1, 2, 1>>}

InitFir ==
    \E tp \in TapSets, d \in 1..MaxDecim, whole \in SeqsUpTo(SampleVals, MaxSamples) :
        \E split \in 0..Len(whole) :
            /\ fir_taps = tp
            /\ fir_decim = d
            /\ fir_len = split
            /\ fir = FirEnter(SubSeq(whole, 1, split), split, tp)
            /\ input = [orig |-> SubSeq(whole, 1, split), whole |-> whole,
                        rest |-> SubSeq(whole, split + 1, Len(whole)), call |-> 1]
            /\ outputs = <<>>

FirLoopTest ==
    /\ fir.pc = "test"
    /\ fir' = FirTest(fir, 0, fir_len, fir_taps)
    /\ UNCHANGED <<fir_taps, fir_decim, fir_len, input, outputs>>
    /\ UNCHANGED notFir

FirLoopWrite ==
    /\ fir.pc = "write"
    /\ fir' = FirWrite(fir, 0, fir_decim)
    /\ UNCHANGED <<fir_taps, fir_decim, fir_len, input, outputs>>
    /\ UNCHANGED notFir

\* The caller takes the dst_i outputs and calls apply again on the last `ret`
\* samples of this call's input followed by the next chunk.
FirNextChunk ==
    /\ fir.pc = "ret"
    /\ input.call = 1
    /\ LET next == SubSeq(fir.mem, fir_len - fir.ret + 1, fir_len) \o input.rest
       IN  /\ fir_len' = Len(next)
           /\ fir' = FirEnter(next, Len(next), fir_taps)
           /\ input' = [input EXCEPT !.orig = next, !.rest = <<>>, !.call = 2]
    /\ outputs' = outputs \o SubSeq(fir.mem, 1, fir.dst_i)
    /\ UNCHANGED <<fir_taps, fir_decim>>
    /\ UNCHANGED notFir

NextFir == FirLoopTest \/ FirLoopWrite \/ FirNextChunk

InitSpecFir == InitFir /\ DecIdle /\ MsIdle /\ WkIdle /\ LpIdle /\ CfgIdle /\ LoopIdle /\ SetIdle /\ MgrIdle /\ PoolIdle

SpecFir == InitSpecFir /\ [][NextFir]_vars

(***************************************************************************)
(* MultistageFir::apply called once per batch on a buffer whose reserved   *)
(* prefix holds whatever the caller left there                             *)
(***************************************************************************)
\* the stages a filter is built from: taps and decimation factor
StageKinds == [fir : TapSets, decimation : 1..MaxDecim]

RECURSIVE Build(_, _)
Build(self, kinds) ==
    IF kinds = <<>> THEN self
    ELSE Build(add_stage(self, Head(kinds).fir, Head(kinds).decimation), Tail(kinds))

StaleVals == {TZero, <<5, 5>>}

InitMs ==
    \E kinds \in SeqsUpTo(StageKinds, MaxStages) \ {<<>>},
       whole \in SeqsUpTo(SampleVals, MaxSamples), extra \in 0..1,
       stale \in StaleVals :
        \E split \in 0..Len(whole) :
            /\ filter = Build(MultistageFir_new, kinds)
            /\ batch_buffer = <<>>
            /\ applied = [start |-> 0, count |-> 0, status |-> "ok", log |-> <<>>]
            /\ batches = [whole |-> whole,
                          rest |-> <<SubSeq(whole, 1, split),
                                     SubSeq(whole, split + 1, Len(whole))>>,
                          call |-> 0,
                          reserve |-> min_buffer_reserve(Build(MultistageFir_new, kinds))
                                      + extra,
                          stale |-> stale,
                          added |-> FALSE]
            /\ decimated = <<>>

\* the caller puts the next batch behind the reserved prefix, calls apply and
\* takes the count elements from start on
TakeOutputs(r) ==
    /\ filter' = r.self
    /\ batch_buffer' = r.buffer
    /\ applied' = [start |-> r.start, count |-> r.count, status |-> r.status,
                   log |-> r.log]
    /\ decimated' = IF r.status = "ok"
                    THEN decimated \o SubSeq(r.buffer, r.start + 1, r.start + r.count)
                    ELSE decimated

ApplyBatch ==
    /\ batches.rest /= <<>>
    /\ applied.status = "ok"
    /\ TakeOutputs(MultistageFir_apply(filter,
                                       Rep(batches.stale, batches.reserve)
                                           \o Head(batches.rest),
                                       batches.reserve))
    /\ batches' = [batches EXCEPT !.rest = Tail(batches.rest), !.call = batches.call + 1]
    /\ UNCHANGED notMs

\* add_stage between two calls of apply; the caller goes on with the reserve
\* it had, or with one that covers the new min_buffer_reserve()
AddStage ==
    /\ batches.rest /= <<>>
    /\ applied.status = "ok"
    /\ Len(filter.stages) < MaxStages
    /\ \E kind \in StageKinds, keep \in BOOLEAN :
            /\ filter' = add_stage(filter, kind.fir, kind.decimation)
            /\ batches' = [batches EXCEPT
                              !.added = TRUE,
                              !.reserve = IF keep THEN batches.reserve
                                          ELSE Max(batches.reserve,
                                                   min_buffer_reserve(filter'))]
    /\ UNCHANGED <<batch_buffer, applied, decimated>>
    /\ UNCHANGED notMs

NextMs == ApplyBatch \/ AddStage

InitSpecMs == InitMs /\ DecIdle /\ FirIdle /\ WkIdle /\ LpIdle /\ CfgIdle /\ LoopIdle /\ SetIdle /\ MgrIdle /\ PoolIdle

SpecMs == InitSpecMs /\ [][NextMs]_vars

(***************************************************************************)
(* FirFilter::new_lowpass, phase by phase                                  *)
(***************************************************************************)
\* largest gain asked for
MaxGain == 2

\* normalized cutoff frequencies p / q: none, those of the cached stages
\* (1 / factor), and a quarter
Cutoffs == {[p |-> 0, q |-> 1], [p |-> 1, q |-> 256], [p |-> 1, q |-> 16],
            [p |-> 1, q |-> 4]}

\* normalized transition widths in thousandths: those the program uses (0.05
\* and 0.1), wider ones, and a negative, a zero and a huge one
Widths == {-100, 0, 50, 100, 300, 500, 5000}

WindowKinds == {"BlackmanHaris"}

InitLowpass ==
    \E gain \in 1..MaxGain, c \in Cutoffs, width_m \in Widths, kind \in WindowKinds :
        lowpass = [pc |-> "window", gain |-> gain, cutoff |-> c, width_m |-> width_m,
                   window_kind |-> kind, ntaps |-> 0, buf |-> <<>>, fmax |-> Fin(0),
                   taps |-> <<>>]

\* min_tap_count, the buffer and the window coefficients
LowpassWindow ==
    /\ lowpass.pc = "window"
    /\ lowpass' =
         [lowpass EXCEPT
            !.ntaps = min_tap_count(lowpass.width_m, lowpass.window_kind),
            !.buf = IF min_tap_count(lowpass.width_m, lowpass.window_kind) < 0 THEN <<>>
                    ELSE coefficients(lowpass.window_kind,
                                      min_tap_count(lowpass.width_m, lowpass.window_kind)),
            !.pc = IF min_tap_count(lowpass.width_m, lowpass.window_kind) < 0
                   THEN "alloc" ELSE "sinc"]
    /\ UNCHANGED notLp

\* the window multiplied with the sinc function
LowpassSinc ==
    /\ lowpass.pc = "sinc"
    /\ lowpass' = [lowpass EXCEPT
                     !.buf = ApplySinc(lowpass.buf, (lowpass.ntaps - 1) \div 2,
                                       lowpass.cutoff),
                     !.pc = "fmax"]
    /\ UNCHANGED notLp

\* the factor that normalizes the gain
LowpassGain ==
    /\ lowpass.pc = "fmax"
    /\ lowpass' = [lowpass EXCEPT
                     !.fmax = GainDivisor(lowpass.buf, (lowpass.ntaps - 1) \div 2),
                     !.pc = "normalize"]
    /\ UNCHANGED notLp

LowpassNormalize ==
    /\ lowpass.pc = "normalize"
    /\ lowpass' = [lowpass EXCEPT
                     !.taps = Normalize(lowpass.buf, lowpass.gain, lowpass.fmax),
                     !.pc = "done"]
    /\ UNCHANGED notLp

NextLowpass == LowpassWindow \/ LowpassSinc \/ LowpassGain \/ LowpassNormalize

InitSpecLowpass == InitLowpass /\ DecIdle /\ FirIdle /\ MsIdle /\ WkIdle /\ CfgIdle /\ LoopIdle /\ SetIdle /\ MgrIdle /\ PoolIdle

SpecLowpass == InitSpecLowpass /\ [][NextLowpass]_vars

(***************************************************************************)
(* The receive loop: a read of at most mtu samples into the end of         *)
(* working_memory, then Decoder::process                                   *)
(***************************************************************************)
\* the decimators of the model: one stage, or one stage with carry-over
WorkerFilters ==
    {<<[fir |-> <<1>>, decimation |-> 1]>>, <<[fir |-> <<1, 2, 1>>, decimation |-> 2]>>}

\* The worker after SetReceiver and SetDecoder: configuration_changed has
\* built the filter and resized working_memory.
InitWorker ==
    \E kinds \in WorkerFilters, bs \in SeqsUpTo(BOOLEAN, MaxSignal),
       bq \in {4, 8}, sq \in {4, 8} :
        /\ mtu = MaxMtu
        /\ current_fir_filter = Build(MultistageFir_new, kinds)
        /\ working_memory = Resize(<<>>, mtu + min_buffer_reserve(current_fir_filter))
        /\ memory_receive_offset = Max(0, min_buffer_reserve(current_fir_filter))
        /\ memory_received_count = 0
        /\ samplerate = 1
        /\ decoder = new_baudot(bq, sq, 0)
        /\ sender = <<>>
        /\ signal = Synth(<<1, 0>>, bs)
        /\ reads = 0
        /\ processed = NotProcessed
        /\ worker_pc = "receive"

\* the read of the stream into working_memory[start..]
WorkerRead ==
    /\ worker_pc = "receive"
    /\ reads < MaxReads
    /\ \E read \in 0..Min(mtu, Len(signal)) :
        LET min_len == memory_receive_offset + mtu
            mem == IF Len(working_memory) < min_len THEN Resize(working_memory, min_len)
                   ELSE working_memory
            start == Len(mem) - mtu
        IN  /\ working_memory' = CopyInto(mem, start, signal, 0, read)
            /\ memory_receive_offset' = start
            /\ memory_received_count' = read
            /\ signal' = SubSeq(signal, read + 1, Len(signal))
    /\ reads' = reads + 1
    /\ worker_pc' = "process"
    /\ UNCHANGED <<mtu, samplerate, current_fir_filter, decoder, sender, processed>>
    /\ UNCHANGED notWk

\* process from the return of decode on: the text is sent and the shift
\* state kept; the cursor and the leftover count decode returned are dropped
AfterDecode(m, d) ==
    /\ worker_pc' = IF d.pc = "done" THEN "receive" ELSE "fault"
    /\ processed' =
           [status |-> d.pc, buffer_len |-> m.buffer_len,
            reserve |-> m.reserve, start |-> m.start, count |-> m.count,
            samples |-> m.mem, conf |-> DecodeArgs(decoder, samplerate),
            bits_offset |-> Len(decoder.leftover_bits),
            bits |-> d.bits, cursor |-> d.cursor, left |-> d.left,
            tail |-> SubSeq(d.bits, d.cursor + 1, Len(m.mem))]
    /\ working_memory' = PunCells(m.mem, Len(decoder.leftover_bits) + Len(m.mem))
    /\ current_fir_filter' = m.filter
    /\ decoder' = [decoder EXCEPT !.letters = d.letters]
    /\ sender' = IF d.string /= <<>> THEN Append(sender, d.string) ELSE sender

\* process from the return of MultistageFir::apply on
AfterApply(m) ==
    IF m.status /= "ok"
    THEN /\ worker_pc' = m.status
         /\ processed' = [NotProcessed EXCEPT !.status = m.status,
                                               !.buffer_len = m.buffer_len,
                                               !.reserve = m.reserve]
         /\ UNCHANGED <<working_memory, current_fir_filter, decoder, sender>>
    ELSE \E nb \in NewBits(m.mem, Len(decoder.leftover_bits)) :
            AfterDecode(m, decode_chars(decoder.leftover_bits \o nb, Len(m.mem),
                                        DecodeArgs(decoder, samplerate),
                                        decoder.letters))

\* Decoder::process
DecoderProcess ==
    /\ worker_pc = "process"
    /\ AfterApply(BeforeDecode(decoder,
                               [working_memory |-> working_memory,
                                memory_receive_offset |-> memory_receive_offset,
                                memory_received_count |-> memory_received_count,
                                current_fir_filter |-> current_fir_filter]))
    /\ UNCHANGED <<mtu, memory_receive_offset, memory_received_count, samplerate,
                   signal, reads>>
    /\ UNCHANGED notWk

NextWorker == WorkerRead \/ DecoderProcess

InitSpecWorker == InitWorker /\ DecIdle /\ FirIdle /\ MsIdle /\ LpIdle /\ CfgIdle /\ LoopIdle /\ SetIdle /\ MgrIdle /\ PoolIdle

SpecWorker == InitSpecWorker /\ [][NextWorker]_vars

(***************************************************************************)
(* The commands that configure the worker, as DeviceWorker::error_process  *)
(* handles them.  The manager sends a command only in a state that         *)
(* check_state_by_command accepts.  The samples are left out here.         *)
(***************************************************************************)
\* constructions of a MultistageFir the worker is followed through
MaxBuilt == 2

\* samplerates of the receiver in Hz, baudrates in quarters and frequency
\* shifts in Hz of the decoder: the decimation factors asked for are 10,
\* 160, 256, 512, 4096, 5000, 8192, 80000, 1250000 and 20000000
ReceiverRates == {160, 4096, 8192, 80000, 20000000}
DecoderBaudsQ == {0, 4}
DecoderShifts == {0, 170}
Mtus == {MaxMtu}

\* Decoder::init that reclaims nothing
init_Fresh(self, prev) == self

\* Decoder::init: reclaim_fields! letters, leftover_bits
init(self, prev) ==
    IF prev /= None
    THEN [self EXCEPT !.letters = Unwrap(prev).letters,
                      !.leftover_bits = Unwrap(prev).leftover_bits]
    ELSE self

\* the end of Decoder::configuration_changed, r being what
\* new_multistage_decim_precise returned or how it ended
Configured(self, w, r) ==
    [status |-> r.status,
     heap |-> r.heap,
     worker |-> IF r.status = "ok"
                THEN [w EXCEPT !.decimation_fir_cache = r.cache,
                               !.working_memory_len = w.mtu + min_buffer_reserve(r.filter),
                               !.memory_receive_offset =
                                   Max(w.memory_receive_offset, min_buffer_reserve(r.filter)),
                               !.current_fir_filter = Some(r.filter)]
                ELSE [w EXCEPT !.decimation_fir_cache = r.cache],
     decoder |-> IF r.status = "ok" THEN [self EXCEPT !.decim = r.factor] ELSE self,
     call |-> [asked |-> r.asked, status |-> r.status, returned |-> r.factor,
               achieved |-> r.achieved, stages |-> r.filter.stages,
               cached |-> r.cached]]

\* Decoder::configuration_changed
configuration_changed(self, w, heap) ==
    Configured(self, w,
               new_multistage_decim_precise(
                   Unwrap(w.receive_state).samplerate \div Max(4 * self.baudrate_q, 1),
                   "BlackmanHaris", w.decimation_fir_cache, heap,
                   [p |-> self.shift, q |-> 2 * Unwrap(w.receive_state).samplerate],
                   100))

\* how the worker thread goes on after configuration_changed: a failed
\* assertion panics; an overflowing product panics in a build with overflow
\* checks and otherwise leaves the loop of try_factor! without an end
ThreadAfter(status) ==
    IF status = "ok" THEN {"running"}
    ELSE IF status = "assert" THEN {"panicked"}
    ELSE {"panicked", "endless"}

InitConfig ==
    /\ worker = DeviceWorker_new
    /\ rc_heap = <<>>
    /\ built = <<>>
    /\ worker_thread = "running"

\* DeviceBoundCommand::CreateDevice
CreateDevice ==
    /\ worker_thread = "running"
    /\ ~worker.device
    /\ worker' = [worker EXCEPT !.device = TRUE]
    /\ UNCHANGED <<rc_heap, built, worker_thread>>
    /\ UNCHANGED notCfg

\* DeviceBoundCommand::DestroyDevice
DestroyDevice ==
    /\ worker_thread = "running"
    /\ worker.device
    /\ worker' = [worker EXCEPT !.receive_state = None, !.device = FALSE,
                                !.decoder = None]
    /\ UNCHANGED <<rc_heap, built, worker_thread>>
    /\ UNCHANGED notCfg

\* the decoder is put back after configuration_changed returned
Reconfigured(r, command, prev, new) ==
    /\ worker' = IF r.status = "ok" THEN [r.worker EXCEPT !.decoder = Some(r.decoder)]
                 ELSE r.worker
    /\ rc_heap' = r.heap
    /\ built' = Append(built, [command |-> command, prev |-> prev, new |-> new,
                               call |-> r.call])
    /\ worker_thread' \in ThreadAfter(r.status)

\* DeviceBoundCommand::SetReceiver
SetReceiver ==
    /\ worker_thread = "running"
    /\ worker.device
    /\ \E rate \in ReceiverRates, m \in Mtus :
         IF worker.decoder = None
         THEN /\ worker' = [worker EXCEPT !.mtu = m,
                                          !.receive_state = Some([samplerate |-> rate])]
              /\ UNCHANGED <<rc_heap, built, worker_thread>>
         ELSE /\ Len(built) < MaxBuilt
              /\ Reconfigured(
                   configuration_changed(
                       Unwrap(worker.decoder),
                       [worker EXCEPT !.mtu = m,
                                      !.receive_state = Some([samplerate |-> rate]),
                                      !.decoder = None],
                       rc_heap),
                   "SetReceiver", worker.decoder, Unwrap(worker.decoder))
    /\ UNCHANGED notCfg

\* DeviceBoundCommand::SetDecoder, the decoder being the one that
\* get_decoder made with Decoder::new_baudot
SetDecoder ==
    /\ worker_thread = "running"
    /\ worker.device
    /\ worker.receive_state /= None
    /\ Len(built) < MaxBuilt
    /\ \E bq \in DecoderBaudsQ, shift \in DecoderShifts :
         Reconfigured(
           configuration_changed(init(new_baudot(bq, 6, shift), worker.decoder),
                                 [worker EXCEPT !.decoder = None], rc_heap),
           "SetDecoder", worker.decoder, new_baudot(bq, 6, shift))
    /\ UNCHANGED notCfg

\* what MultistageFir::apply leaves in the filter, as far as the commands
\* can tell: prev_buffer resized, and `left` samples carried by the first stage
Used(self, left) ==
    [self EXCEPT !.prev_buffer_needs_resize = FALSE,
                 !.stages[1].prev_elements = left]

\* decoder.process(self): the filter is applied to a batch, and decode
\* leaves the shift state of the last character in letters
ProcessLetters ==
    /\ worker_thread = "running"
    /\ worker.decoder /= None
    /\ worker.receive_state /= None
    /\ \E l \in BOOLEAN,
          left \in {0, rc_heap[Unwrap(worker.current_fir_filter).stages[1].fir].len - 1} :
         worker' = [worker EXCEPT
                      !.decoder = Some([Unwrap(worker.decoder) EXCEPT !.letters = l]),
                      !.current_fir_filter =
                          Some(Used(Unwrap(worker.current_fir_filter), left))]
    /\ UNCHANGED <<rc_heap, built, worker_thread>>
    /\ UNCHANGED notCfg

NextConfig == CreateDevice \/ DestroyDevice \/ SetReceiver \/ SetDecoder \/ ProcessLetters

InitSpecConfig == InitConfig /\ DecIdle /\ FirIdle /\ MsIdle /\ WkIdle /\ LpIdle /\ LoopIdle /\ SetIdle /\ MgrIdle /\ PoolIdle

SpecConfig == InitSpecConfig /\ [][NextConfig]_vars

(***************************************************************************)
(* SetDecoder commands to a worker whose receiver runs at any samplerate   *)
(* up to MaxRate: the decimation factors asked for are all those up to     *)
(* MaxRate, and their sixteenth parts                                      *)
(***************************************************************************)
\* largest samplerate of the receiver, in Hz
MaxRate == 5000

\* after CreateDevice and a SetReceiver command
InitFactors ==
    /\ \E rate \in 1..MaxRate :
           worker = [DeviceWorker_new EXCEPT !.device = TRUE, !.mtu = MaxMtu,
                                            !.receive_state = Some([samplerate |-> rate])]
    /\ rc_heap = <<>>
    /\ built = <<>>
    /\ worker_thread = "running"

InitSpecFactors == InitFactors /\ DecIdle /\ FirIdle /\ MsIdle /\ WkIdle /\ LpIdle /\ LoopIdle /\ SetIdle /\ MgrIdle /\ PoolIdle

SpecFactors == InitSpecFactors /\ [][SetDecoder]_vars

(***************************************************************************)
(* DeviceWorker::process and error_process: the order of the steps         *)
(***************************************************************************)
MaxBatches == 3

\* the DeviceWorker that DeviceWorker::process is started on
InitLoop ==
    /\ thread = [pc |-> "flag", available_devices |-> FALSE, device |-> FALSE,
                 receive_stream |-> FALSE, receive_stream_active |-> FALSE,
                 receive_state |-> FALSE, decoder |-> FALSE, fresh |-> FALSE]
    /\ receive_enable_flag = FALSE
    /\ batch = [id |-> 0, runs |-> 0, watched |-> FALSE, failed |-> FALSE,
                stale |-> FALSE]

\* a step of error_process returns Err through `?`
ReturnedErr(t) == [t EXCEPT !.pc = "failed"]

\* the end of a handled event: the next event, or the break when handling
\* took longer than the batch lasts
NextEvent(t) == {t, [t EXCEPT !.pc = "process"]}

\* WorkerManager::set_receive_enabled, on the main thread
set_receive_enabled ==
    /\ thread.pc \in {"flag", "read", "events", "process", "failed"}
    /\ thread.receive_state
    /\ receive_enable_flag' = ~receive_enable_flag
    /\ UNCHANGED <<thread, batch>>
    /\ UNCHANGED notLoop

\* the top of the loop: react to a change of receive_enable_flag
ReactToFlag ==
    /\ thread.pc = "flag"
    /\ LET t == [thread EXCEPT !.fresh = FALSE]
           differs == /\ thread.receive_stream
                      /\ receive_enable_flag /= thread.receive_stream_active
       IN  \/ thread' = [t EXCEPT !.pc = "read",
                                  !.receive_stream_active =
                                      IF differs THEN receive_enable_flag ELSE @]
           \/ /\ differs
              /\ thread' = ReturnedErr(t)
    /\ UNCHANGED <<receive_enable_flag, batch>>
    /\ UNCHANGED notLoop

\* the read of one batch from the active stream
StreamRead ==
    /\ thread.pc = "read"
    /\ IF thread.receive_stream /\ thread.receive_stream_active
       THEN \/ /\ batch.id < MaxBatches
               /\ thread' = [thread EXCEPT !.pc = "events", !.fresh = TRUE]
               /\ batch' = [id |-> batch.id + 1, runs |-> 0,
                            watched |-> thread.decoder, failed |-> FALSE,
                            stale |-> FALSE]
            \/ /\ thread' = ReturnedErr(thread)
               /\ UNCHANGED batch
       ELSE /\ thread' = [thread EXCEPT !.pc = "events"]
            /\ UNCHANGED batch
    /\ UNCHANGED receive_enable_flag
    /\ UNCHANGED notLoop

\* a command handler returns Err before the batch of this turn was processed
Interrupted(b) == [b EXCEPT !.failed = TRUE]

LoopRefreshDevices ==
    /\ thread.pc = "events"
    /\ \/ /\ thread' \in NextEvent([thread EXCEPT !.available_devices = TRUE])
          /\ UNCHANGED batch
       \/ /\ thread' = ReturnedErr(thread)
          /\ batch' = Interrupted(batch)
    /\ UNCHANGED receive_enable_flag
    /\ UNCHANGED notLoop

LoopCreateDevice ==
    /\ thread.pc = "events"
    /\ ~thread.device
    /\ thread.available_devices
    /\ \/ /\ thread' \in NextEvent([thread EXCEPT !.device = TRUE])
          /\ UNCHANGED batch
       \/ /\ thread' = ReturnedErr(thread)
          /\ batch' = Interrupted(batch)
    /\ UNCHANGED receive_enable_flag
    /\ UNCHANGED notLoop

LoopDestroyDevice ==
    /\ thread.pc = "events"
    /\ thread.device
    /\ receive_enable_flag' = FALSE
    /\ thread' \in NextEvent([thread EXCEPT !.receive_stream_active = FALSE,
                                            !.receive_stream = FALSE,
                                            !.receive_state = FALSE,
                                            !.device = FALSE,
                                            !.decoder = FALSE])
    /\ batch' = [batch EXCEPT !.watched = FALSE]
    /\ UNCHANGED notLoop

\* SetReceiver ends in `continue`: the next event follows without the check
\* of the time taken
LoopSetReceiver ==
    /\ thread.pc = "events"
    /\ thread.device
    /\ \/ /\ thread' = [thread EXCEPT !.receive_stream = TRUE,
                                      !.receive_state = TRUE]
          /\ UNCHANGED batch
       \/ /\ thread' \in {ReturnedErr(thread),
                          ReturnedErr([thread EXCEPT !.receive_stream = TRUE])}
          /\ batch' = Interrupted(batch)
    /\ UNCHANGED receive_enable_flag
    /\ UNCHANGED notLoop

LoopRequestData ==
    /\ thread.pc = "events"
    /\ thread.device
    /\ thread.receive_state
    /\ thread' \in NextEvent(thread)
    /\ UNCHANGED <<receive_enable_flag, batch>>
    /\ UNCHANGED notLoop

LoopSetDecoder ==
    /\ thread.pc = "events"
    /\ thread.device
    /\ thread.receive_state
    /\ thread' \in NextEvent([thread EXCEPT !.decoder = TRUE])
    /\ UNCHANGED <<receive_enable_flag, batch>>
    /\ UNCHANGED notLoop

\* try_recv finds the channel empty, or finds the main thread gone
NoMessage ==
    /\ thread.pc = "events"
    /\ \/ thread' = [thread EXCEPT !.pc = "process"]
       \/ thread' = [thread EXCEPT !.pc = "terminated"]
    /\ UNCHANGED <<receive_enable_flag, batch>>
    /\ UNCHANGED notLoop

\* the bottom of the loop: Decoder::process on the active stream
LoopProcess ==
    /\ thread.pc = "process"
    /\ thread' = [thread EXCEPT !.pc = "flag"]
    /\ IF thread.receive_stream /\ thread.receive_stream_active /\ thread.decoder
       THEN batch' = [batch EXCEPT !.runs = @ + 1,
                                   !.stale = @ \/ ~thread.fresh]
       ELSE UNCHANGED batch
    /\ UNCHANGED receive_enable_flag
    /\ UNCHANGED notLoop

\* DeviceWorker::process: after a SoapyError the Error event is sent and
\* error_process starts again; the thread returns when the main one is gone
Restart ==
    /\ thread.pc = "failed"
    /\ \/ thread' = [thread EXCEPT !.pc = "flag"]
       \/ thread' = [thread EXCEPT !.pc = "terminated"]
    /\ UNCHANGED <<receive_enable_flag, batch>>
    /\ UNCHANGED notLoop

NextLoop ==
    \/ set_receive_enabled
    \/ ReactToFlag
    \/ StreamRead
    \/ LoopRefreshDevices
    \/ LoopCreateDevice
    \/ LoopDestroyDevice
    \/ LoopSetReceiver
    \/ LoopRequestData
    \/ LoopSetDecoder
    \/ NoMessage
    \/ LoopProcess
    \/ Restart

InitSpecLoop == InitLoop /\ DecIdle /\ FirIdle /\ MsIdle /\ WkIdle /\ LpIdle /\ CfgIdle /\ SetIdle /\ MgrIdle /\ PoolIdle

SpecLoop == InitSpecLoop /\ [][NextLoop]_vars

(***************************************************************************)
(* Settings::new.  A character is a one-character string; every character  *)
(* takes one byte, so that byte offsets and character positions agree.     *)
(* An f64 is a whole number of thousandths.                                *)
(***************************************************************************)
\* the character CharCursor holds at the end of the string
NUL == "NUL"

\* CharCursor::current().1 at offset i (from 0)
Cur(s, i) == IF i < Len(s) THEN s[i + 1] ELSE NUL

\* CharCursor::next: a NUL, the end included, is never stepped over
CursorNext(s, i) == IF Cur(s, i) = NUL THEN i ELSE i + 1

is_whitespace(c) == c \in {" ", "\n", "\t", "\r"}
is_control(c) == c \in {NUL, "\n", "\t", "\r"}
is_ascii_digit(c) == c \in {"0", "1", "2", "3", "4", "5", "6", "7", "8", "9"}
is_ascii_punctuation(c) ==
    c \in {"!", "\"", "#", "'", "-", ".", "=", "\\", "_"}

to_digit(c) ==
    CASE c = "0" -> 0 [] c = "1" -> 1 [] c = "2" -> 2 [] c = "3" -> 3
      [] c = "4" -> 4 [] c = "5" -> 5 [] c = "6" -> 6 [] c = "7" -> 7
      [] c = "8" -> 8 [] c = "9" -> 9

\* CharCursor::consume_all(|c| c.is_whitespace())
RECURSIVE consume_all(_, _)
consume_all(s, i) ==
    IF Cur(s, i) /= NUL /\ is_whitespace(Cur(s, i)) THEN consume_all(s, CursorNext(s, i))
    ELSE i

\* CharCursor::consume_until
RECURSIVE consume_until(_, _, _)
consume_until(s, i, until) ==
    IF Cur(s, i) = NUL \/ Cur(s, i) = until THEN i
    ELSE consume_until(s, CursorNext(s, i), until)

\* the values of a field
Field_String(str) == [type |-> "String", string |-> str, number |-> 0]
Field_Number(n) == [type |-> "Number", string |-> <<>>, number |-> n]
Field_ParseError == [type |-> "ParseError", string |-> <<>>, number |-> 0]

\* the value parsed, where the cursor is left, and the errors pushed
Parsed(field, at, err) == [field |-> field, at |-> at, err |-> err]

\* the scan for the '=' that ends a name: what stopped it, where, and the
\* offset behind the last character that is no whitespace
RECURSIVE ScanName(_, _, _)
ScanName(s, i, name_end) ==
    LET c == Cur(s, i)
    IN  IF c = "=" THEN [met |-> "=", at |-> i, name_end |-> name_end]
        ELSE IF c \in {"\n", NUL} THEN [met |-> "end", at |-> i, name_end |-> name_end]
        ELSE ScanName(s, CursorNext(s, i), IF is_whitespace(c) THEN name_end ELSE i + 1)

\* a character that makes a name invalid
InvalidNameChar(c) ==
    /\ c /= "_" /\ c /= "-"
    /\ is_whitespace(c) \/ is_control(c) \/ is_ascii_punctuation(c)

\* the character an escape sequence stands for, if it is known
escape(c) ==
    CASE c = "n" -> Some("\n") [] c = "r" -> Some("\r") [] c = "t" -> Some("\t")
      [] c = "0" -> Some(NUL) [] c = "\\" -> Some("\\") [] c = "'" -> Some("'")
      [] c = "\"" -> Some("\"") [] OTHER -> None

\* the loop over a string value; the cursor is on the opening quote or on
\* the character taken last
RECURSIVE StringValue(_, _, _)
StringValue(s, i, str) ==
    LET j == CursorNext(s, i)
        c == Cur(s, j)
        k == CursorNext(s, j)
    IN  IF c = "\\"
        THEN IF escape(Cur(s, k)) = None
             THEN Parsed(Field_ParseError, k, <<"Unknown escape sequence">>)
             ELSE StringValue(s, k, Append(str, Unwrap(escape(Cur(s, k)))))
        ELSE IF c = "\"" THEN Parsed(Field_String(str), k, <<>>)
        ELSE IF c \in {"\n", NUL} THEN Parsed(Field_ParseError, j, <<"Unclosed string">>)
        ELSE StringValue(s, j, Append(str, c))

\* the arm `'\n' | '#' | '\0' | _ if c.is_whitespace()`: the guard holds for
\* every alternative, so the arm is taken by whitespace only
NumberEnds_Listed(c) == c \in {"\n", "#", NUL}
NumberEnds(c) == is_whitespace(c)

\* the loop over the decimal part; the cursor is on the '.' or on the digit
\* taken last
RECURSIVE DecimalPart(_, _, _, _, _)
DecimalPart(s, i, number, decimal_number, multiplier) ==
    LET j == CursorNext(s, i)
        c == Cur(s, j)
    IN  IF NumberEnds(c) THEN Parsed(Field_Number(number + decimal_number), j, <<>>)
        ELSE IF ~is_ascii_digit(c)
        THEN Parsed(Field_ParseError, j, <<"Expected an ascii digit in the decimal part">>)
        ELSE DecimalPart(s, j, number, decimal_number + to_digit(c) * multiplier,
                         multiplier \div 10)

\* the 'number loop
RECURSIVE NumberValue(_, _, _)
NumberValue(s, i, number) ==
    LET c == Cur(s, i)
    IN  IF c = "." THEN DecimalPart(s, i, number, 0, 100)
        ELSE IF NumberEnds(c) THEN Parsed(Field_Number(number), i, <<>>)
        ELSE IF ~is_ascii_digit(c)
        THEN Parsed(Field_ParseError, i, <<"Expected an ascii digit or '.'">>)
        ELSE NumberValue(s, CursorNext(s, i), number * 10 + to_digit(c) * 1000)

\* the 'value block
ParseValue(s, i) ==
    LET c == Cur(s, i)
    IN  IF c = "\"" THEN StringValue(s, i, <<>>)
        ELSE IF c \in {"\n", NUL}
        THEN Parsed(Field_ParseError, i, <<"Expected value assignment">>)
        ELSE IF ~is_ascii_digit(c) /\ c /= "."
        THEN Parsed(Field_ParseError, consume_until(s, i, "\n"),
                    <<"Expected a number or a string">>)
        ELSE NumberValue(s, i, 0)

\* HashMap::insert
Insert(fields, name, value) ==
    [n \in DOMAIN fields \cup {name} |-> IF n = name THEN value ELSE fields[n]]

\* a turn of the 'statements loop from the '=' on: the name is checked, the
\* value parsed and the pair inserted unless the name is invalid
AfterName(p, s, name, eq) ==
    LET skip == \E k \in 1..Len(name) : InvalidNameChar(name[k])
        v == ParseValue(s, consume_all(s, CursorNext(s, eq)))
    IN  [p EXCEPT !.at = v.at,
                  !.errors = @ \o (IF skip THEN <<"Encountered unexpected character">>
                                   ELSE <<>>) \o v.err,
                  !.fields = IF skip THEN @ ELSE Insert(@, name, v.field)]

\* a turn of the 'statements loop that meets a name at name_start
StatementAt(p, s, name_start, scan) ==
    IF scan.met = "end"
    THEN [p EXCEPT !.at = CursorNext(s, scan.at),
                   !.errors = Append(@, "Unexpected end of statement")]
    ELSE IF scan.name_end < name_start
    THEN [p EXCEPT !.pc = "panicked"]
    ELSE AfterName(p, s, SubSeq(s, name_start + 1, scan.name_end), scan.at)

\* pieces a settings string is written from
MaxLines == 2

\* a piece: what it is, its characters, and for a statement its name and
\* the value written
Piece(kind, chars, name, field) ==
    [kind |-> kind, text |-> chars, name |-> name, field |-> field]

\* names without whitespace, control and punctuation other than '_' and '-'
PieceNames == {<<"a">>, <<"1">>, <<"-", "n", "_">>}

\* strings with the known escapes and unsigned decimal numbers
PieceValues ==
    {[text |-> <<"\"", "\"">>, field |-> Field_String(<<>>)],
     [text |-> <<"\"", "a", "#", "=", " ", "\"">>,
      field |-> Field_String(<<"a", "#", "=", " ">>)],
     [text |-> <<"\"", "\\", "n", "\\", "r", "\\", "t", "\\", "0", "\\", "\\",
                 "\\", "'", "\\", "\"", "\"">>,
      field |-> Field_String(<<"\n", "\r", "\t", NUL, "\\", "'", "\"">>)],
     [text |-> <<"4", "2">>, field |-> Field_Number(42000)],
     [text |-> <<".", "1">>, field |-> Field_Number(100)],
     [text |-> <<"3", "2", ".", "0", "5">>, field |-> Field_Number(32050)],
     [text |-> <<"7", ".">>, field |-> Field_Number(7000)]}

\* `name = value` followed by whitespace
Statement(name, gap, v, end) ==
    Piece("statement", name \o gap \o <<"=">> \o gap \o v.text \o end, name, v.field)

ValidPieces ==
    {Piece("blank", <<"\n">>, <<>>, Field_ParseError),
     Piece("blank", <<" ", "\n">>, <<>>, Field_ParseError),
     Piece("comment", <<"#", "a", " ", "=", "#", "\"", "\n">>, <<>>, Field_ParseError)}
    \cup {Statement(name, <<" ">>, v, <<"\n">>) : name \in PieceNames, v \in PieceValues}
    \cup {Statement(<<"a">>, <<>>, v, <<" ">>) : v \in PieceValues}

\* a number followed at once by a comment
HashEndedPieces ==
    {Piece("statement", <<"a", " ", "=", " ">> \o v.text \o <<"#", "a", "\n">>,
           <<"a">>, v.field) : v \in {w \in PieceValues : w.field.type = "Number"}}

\* statements that are to be reported
Broken(kind, chars) == Piece(kind, chars, <<>>, Field_ParseError)

BrokenPieces ==
    {[Broken("name", <<"a", " ", "n", " ", "=", " ", "1", "\n">>)
        EXCEPT !.name = <<"a", " ", "n">>],
     [Broken("name", <<"a", "'", "=", "\"", "\"", "\n">>)
        EXCEPT !.name = <<"a", "'">>],
     [Broken("name", <<"a", "!", "1", " ", "=", " ", "1", " ">>)
        EXCEPT !.name = <<"a", "!", "1">>],
     Broken("second dot", <<"a", " ", "=", " ", "1", ".", "1", ".", "1", "\n">>),
     Broken("second dot", <<"a", "=", ".", ".", "\n">>),
     Broken("no value", <<"a", "=", "\n">>),
     Broken("no value", <<"a", " ", "=", " ", "\n">>),
     Broken("no equals", <<"a", "\n">>),
     Broken("no equals", <<"a", " ", "1", "\n">>)}

RECURSIVE Concat(_)
Concat(pieces) ==
    IF pieces = <<>> THEN <<>> ELSE Head(pieces).text \o Concat(Tail(pieces))

\* the pieces one after the other, with or without the last whitespace
Written(pieces, trimmed) ==
    IF trimmed /\ pieces /= <<>>
    THEN SubSeq(Concat(pieces), 1, Len(Concat(pieces)) - 1)
    ELSE Concat(pieces)

\* Settings::new up to the 'statements loop
InitSettings ==
    /\ \E n \in 0..MaxLines :
         \E pieces \in [1..n -> ValidPieces \cup HashEndedPieces \cup BrokenPieces] :
            \E trimmed \in BOOLEAN :
                /\ lines = pieces
                /\ config_text = Written(pieces, trimmed)
    /\ parser = [pc |-> "statements", at |-> 0, fields |-> <<>>, errors |-> <<>>]

\* where the turn of the 'statements loop stands after the whitespace
TurnAt == consume_all(config_text, parser.at)

\* the turn that finds the end of the string: Settings::new returns
EndOfInput ==
    /\ parser.pc = "statements"
    /\ Cur(config_text, TurnAt) = NUL
    /\ parser' = [parser EXCEPT !.pc = "returned", !.at = TurnAt]
    /\ UNCHANGED <<config_text, lines>>
    /\ UNCHANGED notSet

\* the turn that finds a comment
Comment ==
    /\ parser.pc = "statements"
    /\ Cur(config_text, TurnAt) = "#"
    /\ parser' = [parser EXCEPT !.at = consume_until(config_text, TurnAt, "\n")]
    /\ UNCHANGED <<config_text, lines>>
    /\ UNCHANGED notSet

\* the turn that finds a statement
ParseStatement ==
    /\ parser.pc = "statements"
    /\ Cur(config_text, TurnAt) \notin {NUL, "#"}
    /\ parser' = StatementAt(parser, config_text, TurnAt,
                             ScanName(config_text, TurnAt, 0))
    /\ UNCHANGED <<config_text, lines>>
    /\ UNCHANGED notSet

NextSettings == EndOfInput \/ Comment \/ ParseStatement

InitSpecSettings ==
    /\ InitSettings /\ DecIdle /\ FirIdle /\ MsIdle /\ WkIdle /\ LpIdle /\ CfgIdle
    /\ LoopIdle /\ MgrIdle /\ PoolIdle

SpecSettings == InitSpecSettings /\ [][NextSettings]_vars

(***************************************************************************)
(* InnerDeviceManager: the state the main thread keeps about its worker,   *)
(* the commands it sends and schedules, the events it receives; and the    *)
(* worker thread handling the commands in the order they were sent.        *)
(***************************************************************************)
\* the variants of DeviceBoundCommand
DeviceBoundCommand ==
    {"DestroyDevice", "CreateDevice", "RefreshDevices", "SetReceiver",
     "RequestData", "SetDecoder"}

\* the messages a channel holds at most
MaxChannel == 2

\* the RequestData commands without a DataReady at most
MaxInFlight == 1

\* the entries of scheduled_commands at most
MaxScheduled == 2

\* the milliseconds start_time.elapsed() reaches at most
MaxElapsed == 2

\* the delay_ms of schedule_command at most
MaxDelay == 2

\* check_state_by_command with only the device checked for RequestData and
\* SetDecoder
check_state_by_command_DeviceOnly(m, command) ==
    CASE command = "DestroyDevice" -> m.device_valid
      [] command = "CreateDevice" -> ~m.device_valid
      [] command = "RefreshDevices" -> TRUE
      [] command = "SetReceiver" -> m.device_valid
      [] command = "RequestData" -> m.device_valid
      [] command = "SetDecoder" -> m.device_valid

\* check_state_by_command: TRUE for Ok(()), FALSE for Err(BadState)
check_state_by_command(m, command) ==
    CASE command = "DestroyDevice" -> m.device_valid
      [] command = "CreateDevice" -> ~m.device_valid
      [] command = "RefreshDevices" -> TRUE
      [] command = "SetReceiver" -> m.device_valid
      [] command = "RequestData" -> m.device_valid /\ m.receiver_valid
      [] command = "SetDecoder" -> m.device_valid /\ m.receiver_valid

modify_state_by_command(m, command) ==
    CASE command = "DestroyDevice" ->
             [m EXCEPT !.device_valid = FALSE, !.receiver_valid = FALSE,
                       !.decoder_valid = FALSE]
      [] command = "CreateDevice" -> [m EXCEPT !.device_valid = TRUE]
      [] command = "RequestData" ->
             [m EXCEPT !.data_requests_in_flight = @ + 1]
      [] command = "RefreshDevices" -> [m EXCEPT !.refreshing_devices = TRUE]
      [] command = "SetReceiver" -> [m EXCEPT !.receiver_valid = TRUE]
      [] command = "SetDecoder" -> [m EXCEPT !.decoder_valid = TRUE]

\* the events the worker sends; WorkerReset is made by the manager itself
modify_state_by_received_event(m, event) ==
    CASE event = "DeviceCreated" -> [m EXCEPT !.device_valid = TRUE]
      [] event = "DeviceDestroyed" -> [m EXCEPT !.device_valid = FALSE]
      [] event = "RefreshedDevices" -> [m EXCEPT !.refreshing_devices = FALSE]
      [] event = "DataReady" -> [m EXCEPT !.data_requests_in_flight = @ - 1]
      [] event = "Error" -> m

\* send_command on the manager st.m and the command channel st.channel, the
\* receiving end of which is alive or dropped: the check, then the change of
\* state, then the send
SendCommand(st, command, alive) ==
    IF ~check_state_by_command(st.m, command)
    THEN [st EXCEPT !.m.sent = [command |-> command, result |-> "BadState"]]
    ELSE [m |-> [modify_state_by_command(st.m, command) EXCEPT
                     !.sent = [command |-> command,
                               result |-> IF alive THEN "Ok"
                                          ELSE "WorkerPoisoned"]],
          channel |-> IF alive THEN Append(st.channel, command)
                      ELSE st.channel]

\* the receiver of the command channel lives as long as the worker thread
ReceiverAlive == device_worker.pc = "running"

\* InnerDeviceManager::new and the thread it spawns
InitManager ==
    /\ manager = [pc |-> "running",
                  device_valid |-> FALSE,
                  receiver_valid |-> FALSE,
                  decoder_valid |-> FALSE,
                  refreshing_devices |-> FALSE,
                  data_requests_in_flight |-> 0,
                  scheduled_commands |-> <<>>,
                  elapsed |-> 0,
                  sent |-> [command |-> "none", result |-> "none"],
                  polled |-> None]
    /\ device_commands = <<>>
    /\ gui_events = <<>>
    /\ device_worker = [pc |-> "running",
                        available_devices |-> FALSE,
                        device |-> FALSE,
                        receive_state |-> FALSE,
                        decoder |-> FALSE,
                        handled |-> [command |-> "none", device |-> FALSE,
                                     available_devices |-> FALSE]]

\* send_command(command)
send_command(command) ==
    /\ manager.pc = "running"
    /\ Len(device_commands) < MaxChannel
    /\ command = "RequestData" =>
           manager.data_requests_in_flight < MaxInFlight
    /\ LET st == SendCommand([m |-> manager, channel |-> device_commands],
                             command, ReceiverAlive)
       IN /\ manager' = st.m
          /\ device_commands' = st.channel
    /\ UNCHANGED <<gui_events, device_worker>>
    /\ UNCHANGED notMgr

\* try_receive: the oldest event of the channel, if there is one, changes the
\* state and is handed to the caller
try_receive ==
    /\ manager.pc = "running"
    /\ gui_events /= <<>>
    /\ manager' = modify_state_by_received_event(manager, Head(gui_events))
    /\ gui_events' = Tail(gui_events)
    /\ UNCHANGED <<device_commands, device_worker>>
    /\ UNCHANGED notMgr

\* the commands the windows schedule
ScheduledCommand == {"RefreshDevices", "RequestData"}

\* schedule_command(command, delay_ms)
schedule_command(command, delay_ms) ==
    /\ manager.pc = "running"
    /\ Len(manager.scheduled_commands) < MaxScheduled
    /\ manager' = [manager EXCEPT !.scheduled_commands =
                       Append(@, [command |-> command,
                                  trigger_time |-> manager.elapsed + delay_ms])]
    /\ UNCHANGED <<device_commands, gui_events, device_worker>>
    /\ UNCHANGED notMgr

\* a millisecond passes
Elapse ==
    /\ manager.pc = "running"
    /\ manager.elapsed < MaxElapsed
    /\ manager' = [manager EXCEPT !.elapsed = @ + 1]
    /\ UNCHANGED <<device_commands, gui_events, device_worker>>
    /\ UNCHANGED notMgr

\* peek with the order of ScheduledCommandEntry not reversed: the entries with
\* the highest trigger_time
Peek_Latest(h) ==
    {i \in DOMAIN h : \A j \in DOMAIN h : h[i].trigger_time >= h[j].trigger_time}

\* BinaryHeap::peek under the reversed order of ScheduledCommandEntry: the
\* entries with the lowest trigger_time, any of which may be on top
Peek(h) ==
    {i \in DOMAIN h : \A j \in DOMAIN h : h[i].trigger_time <= h[j].trigger_time}

\* the heap without its entry i
Popped(h, i) == SubSeq(h, 1, i - 1) \o SubSeq(h, i + 1, Len(h))

\* the while loop of poll_scheduled_commands from the state st on, the entries
\* in dispatched sent so far: every way it can end
RECURSIVE PollLoop(_, _, _, _)
PollLoop(st, current, dispatched, alive) ==
    LET h == st.m.scheduled_commands
        done(returned) ==
            [st EXCEPT !.m.polled = Some([current |-> current,
                                          dispatched |-> dispatched,
                                          returned |-> returned])]
    IN IF h = <<>>
       THEN {done(5)}
       ELSE UNION {
                IF h[i].trigger_time < current
                THEN PollLoop(SendCommand(
                                  [st EXCEPT !.m.scheduled_commands =
                                                 Popped(h, i)],
                                  h[i].command, alive),
                              current, Append(dispatched, h[i]), alive)
                ELSE {done(h[i].trigger_time - current)}
                : i \in Peek(h)}

\* poll_scheduled_commands
poll_scheduled_commands ==
    /\ manager.pc = "running"
    /\ Len(device_commands) < MaxChannel
    /\ \E st \in PollLoop([m |-> manager, channel |-> device_commands],
                          manager.elapsed, <<>>, ReceiverAlive) :
           /\ manager' = st.m
           /\ device_commands' = st.channel
    /\ UNCHANGED <<gui_events, device_worker>>
    /\ UNCHANGED notMgr

\* what the worker w is after the command at the head of its channel, and the
\* event it sends, if any; ok tells whether the calls into SoapySDR succeed.
\* A failed call returns from error_process, process sends the Error event
\* and enters error_process again with the fields as they were.
Handled(w, command, ok) ==
    LET seen == [w EXCEPT !.handled = [command |-> command,
                                       device |-> w.device,
                                       available_devices |-> w.available_devices]]
        panicked == [w |-> [seen EXCEPT !.pc = "panicked"], event |-> None]
        failed == [w |-> seen, event |-> Some("Error")]
    IN CASE command = "CreateDevice" ->
                IF w.device \/ ~w.available_devices THEN panicked
                ELSE IF ~ok THEN failed
                ELSE [w |-> [seen EXCEPT !.device = TRUE],
                      event |-> Some("DeviceCreated")]
         [] command = "DestroyDevice" ->
                [w |-> [seen EXCEPT !.receive_state = FALSE,
                                    !.device = FALSE, !.decoder = FALSE],
                 event |-> Some("DeviceDestroyed")]
         [] command = "RefreshDevices" ->
                IF ~ok THEN failed
                ELSE [w |-> [seen EXCEPT !.available_devices = TRUE],
                      event |-> Some("RefreshedDevices")]
         [] command = "SetReceiver" ->
                IF ~w.device THEN panicked
                ELSE IF ~ok THEN failed
                ELSE [w |-> [seen EXCEPT !.receive_state = TRUE],
                      event |-> None]
         [] command = "RequestData" ->
                IF ~w.receive_state THEN panicked
                ELSE [w |-> seen, event |-> Some("DataReady")]
         [] command = "SetDecoder" ->
                IF ~w.receive_state THEN panicked
                ELSE [w |-> [seen EXCEPT !.decoder = TRUE], event |-> None]

\* one turn of the 'process_events loop that finds a command.  A RequestData
\* the working memory has no samples for yet is put back and found again by
\* a later turn.
WorkerHandles ==
    /\ device_worker.pc = "running"
    /\ device_commands /= <<>>
    /\ Len(gui_events) < MaxChannel
    /\ \E ok \in BOOLEAN :
           LET after == Handled(device_worker, Head(device_commands), ok)
           IN /\ device_worker' = after.w
              /\ gui_events' = gui_events \o after.event
    /\ device_commands' = Tail(device_commands)
    /\ UNCHANGED manager
    /\ UNCHANGED notMgr

NextManager ==
    \/ \E command \in DeviceBoundCommand : send_command(command)
    \/ try_receive
    \/ WorkerHandles

InitSpecManager ==
    /\ InitManager /\ DecIdle /\ FirIdle /\ MsIdle /\ WkIdle /\ LpIdle /\ CfgIdle
    /\ LoopIdle /\ SetIdle /\ PoolIdle

SpecManager == InitSpecManager /\ [][NextManager]_vars

\* a manager that schedules commands, either new or with a device created and
\* a receiver set, every event of which was received; the worker is busy
\* and leaves the commands in the channel
InitSchedule ==
    \E configured \in BOOLEAN :
        /\ manager = [pc |-> "running",
                      device_valid |-> configured,
                      receiver_valid |-> configured,
                      decoder_valid |-> FALSE,
                      refreshing_devices |-> FALSE,
                      data_requests_in_flight |-> 0,
                      scheduled_commands |-> <<>>,
                      elapsed |-> 0,
                      sent |-> [command |-> "none", result |-> "none"],
                      polled |-> None]
        /\ device_commands = <<>>
        /\ gui_events = <<>>
        /\ device_worker = [pc |-> "running",
                            available_devices |-> configured,
                            device |-> configured,
                            receive_state |-> configured,
                            decoder |-> FALSE,
                            handled |-> [command |-> "none", device |-> FALSE,
                                         available_devices |-> FALSE]]

NextSchedule ==
    \/ \E command \in ScheduledCommand, delay_ms \in 0..MaxDelay :
           schedule_command(command, delay_ms)
    \/ Elapse
    \/ poll_scheduled_commands

InitSpecSchedule ==
    /\ InitSchedule /\ DecIdle /\ FirIdle /\ MsIdle /\ WkIdle /\ LpIdle /\ CfgIdle
    /\ LoopIdle /\ SetIdle /\ PoolIdle

SpecSchedule == InitSpecSchedule /\ [][NextSchedule]_vars

(***************************************************************************)
(* Worker, the task queue: the main thread adds work and drops the worker, *)
(* the "Simple worker" thread pops tasks, processes them and parks when    *)
(* the queue is empty.                                                     *)
(***************************************************************************)
\* the tasks added at most
MaxTasks == 3

\* Worker::new: an empty queue, the flag false, the thread at the top of its
\* loop with no park token
InitPool ==
    /\ stop_flag = FALSE
    /\ queue = <<>>
    /\ simple_worker = [pc |-> "load",
                        token |-> FALSE,
                        next_work |-> None,
                        ready |-> {},
                        added |-> 0,
                        main |-> "idle"]

\* add_work up to the release of the queue's lock: the task is pushed
AddWorkPush ==
    /\ simple_worker.main = "idle"
    /\ simple_worker.added < MaxTasks
    /\ queue' = Append(queue, simple_worker.added + 1)
    /\ simple_worker' = [simple_worker EXCEPT !.added = @ + 1,
                                              !.main = "unpark"]
    /\ UNCHANGED stop_flag
    /\ UNCHANGED notPool

\* add_work from there: unpark leaves the token for the thread
AddWorkUnpark ==
    /\ simple_worker.main = "unpark"
    /\ simple_worker' = [simple_worker EXCEPT !.token = TRUE, !.main = "idle"]
    /\ UNCHANGED <<stop_flag, queue>>
    /\ UNCHANGED notPool

\* Drop::drop up to the join: the flag is stored
DropStore ==
    /\ simple_worker.main = "idle"
    /\ stop_flag' = TRUE
    /\ simple_worker' = [simple_worker EXCEPT !.main = "join"]
    /\ UNCHANGED queue
    /\ UNCHANGED notPool

\* join returns once the thread has returned from its closure
DropJoin ==
    /\ simple_worker.main = "join"
    /\ simple_worker.pc = "returned"
    /\ simple_worker' = [simple_worker EXCEPT !.main = "dropped"]
    /\ UNCHANGED <<stop_flag, queue>>
    /\ UNCHANGED notPool

\* the top of the thread's loop: the flag is loaded
LoadStop ==
    /\ simple_worker.pc = "load"
    /\ simple_worker' = [simple_worker EXCEPT
                             !.pc = IF stop_flag THEN "returned" ELSE "pop"]
    /\ UNCHANGED <<stop_flag, queue>>
    /\ UNCHANGED notPool

\* the queue is locked and its last task popped; with none the thread goes
\* on to park
PopWork ==
    /\ simple_worker.pc = "pop"
    /\ IF queue = <<>>
       THEN /\ simple_worker' = [simple_worker EXCEPT !.pc = "park"]
            /\ UNCHANGED queue
       ELSE /\ simple_worker' = [simple_worker EXCEPT
                                     !.pc = "process",
                                     !.next_work = Some(queue[Len(queue)])]
            /\ queue' = SubSeq(queue, 1, Len(queue) - 1)
    /\ UNCHANGED stop_flag
    /\ UNCHANGED notPool

\* thread::park returns because the token is there, and takes it
ParkReturns ==
    /\ simple_worker.pc = "park"
    /\ simple_worker.token
    /\ simple_worker' = [simple_worker EXCEPT !.pc = "load", !.token = FALSE]
    /\ UNCHANGED <<stop_flag, queue>>
    /\ UNCHANGED notPool

\* thread::park returns with no token: it may, and nothing makes it
ParkReturnsSpuriously ==
    /\ simple_worker.pc = "park"
    /\ ~simple_worker.token
    /\ simple_worker' = [simple_worker EXCEPT !.pc = "load"]
    /\ UNCHANGED <<stop_flag, queue>>
    /\ UNCHANGED notPool

\* the task is processed and its output stored in its place
ProcessWork ==
    /\ simple_worker.pc = "process"
    /\ simple_worker' = [simple_worker EXCEPT
                             !.pc = "load",
                             !.ready = @ \cup {Unwrap(simple_worker.next_work)},
                             !.next_work = None]
    /\ UNCHANGED <<stop_flag, queue>>
    /\ UNCHANGED notPool

\* the steps the thread takes when it can
ThreadRuns == LoadStop \/ PopWork \/ ParkReturns \/ ProcessWork

NextPool ==
    \/ AddWorkPush
    \/ AddWorkUnpark
    \/ DropStore
    \/ DropJoin
    \/ LoadStop
    \/ PopWork
    \/ ParkReturns
    \/ ParkReturnsSpuriously
    \/ ProcessWork

InitSpecPool ==
    /\ InitPool /\ DecIdle /\ FirIdle /\ MsIdle /\ WkIdle /\ LpIdle /\ CfgIdle
    /\ LoopIdle /\ SetIdle /\ MgrIdle

\* a thread that can take a step takes one, and a join that can return does
SpecPool ==
    InitSpecPool /\ [][NextPool]_vars /\ WF_vars(ThreadRuns) /\ WF_vars(DropJoin)

(***************************************************************************)
(* Properties of decode and decode_baudot                                  *)
(***************************************************************************)
\* one call of decode on the whole bit sequence the caller was given
WholeCall ==
    decode(Synth(<<1, 0>>, feed.whole), Rep(FALSE, Len(feed.whole)), 0, conf,
           feed.letters0)

\* C2: decoding a first part, then the tail that call left unconsumed followed
\* by the second part (bits_offset = length of the tail, shift state kept),
\* gives the same characters in the same order and the same final shift state
\* as one call on the whole sequence.  Stated for one stop bit and at least
\* one bit per symbol.
C2_SplitDecodeEqualsWhole ==
    (pc = "done" /\ feed.call = 2 /\ WholeCall.pc = "done"
                 /\ conf.stop_q = 4 /\ samples_per_symbol(conf) >= 1) =>
        /\ emitted \o string = WholeCall.string
        /\ letters = WholeCall.letters

\* C3: a stream of frames with exact symbol timing (a true start bit, the
\* five code bits least significant first and inverted, each held for
\* samples_per_symbol bits, a false stop window of the stop-bit length, false
\* idle bits) decodes to exactly the characters the ITA2 tables give under
\* shift tracking, in order.  Stated for the streams whose stop window is at
\* least one bit long and for the calls that return.
C3_FramesDecodeToIta2 ==
    (pc = "done" /\ samples_per_stop_bit(conf) >= 1) =>
        /\ string = Ita2Text(feed.codes, feed.letters0).string
        /\ letters = Ita2Text(feed.codes, feed.letters0).letters

StopWindowFits(p, c, end) == p + 6 * samples_per_symbol(c) + samples_per_stop_bit(c) <= end

StopWindowWrong(buf, p, c) ==
    \E j \in 0..(samples_per_stop_bit(c) - 1) : buf[p + 6 * samples_per_symbol(c) + j + 1]

\* the code of the frame whose start bit is at p: data bit i is the inverse of
\* the bit at the middle of pulse i
FrameCode(buf, p, c) ==
    LET bit(i) == ~buf[p + samples_per_symbol(c) + half_samples_per_symbol(c)
                       + i * samples_per_symbol(c) + 1]
        val(i) == IF bit(i) THEN Pow2(i) ELSE 0
    IN  val(0) + val(1) + val(2) + val(3) + val(4)

StopFailureStep ==
    (pc = "check" /\ StopWindowFits(cursor, conf, BitsEnd(samples))
                  /\ StopWindowWrong(bits, cursor, conf))
        => (/\ string' = string
            /\ letters' = letters
            /\ pc' = "seek"
            /\ cursor' = cursor + 6 * samples_per_symbol(conf)
                                + samples_per_stop_bit(conf))

FrameAfterResyncStep ==
    (pc = "extract" /\ resync >= 0)
        => (LET t == Ita2Text(<<FrameCode(bits, cursor, conf)>>, letters)
            IN  /\ cursor >= resync
                /\ string' = string \o t.string
                /\ letters' = t.letters)

\* the frame with the wrong stop window gave nothing and the valid frame
\* behind it gave the character of its code
ValidFrameDecoded ==
    (pc \in {"done", "oob"} /\ resync >= 0 /\ Len(feed.codes) = 1)
        => string = Ita2Text(feed.codes, feed.letters0).string

\* C5: a candidate start bit at p whose stop window holds a true bit gives no
\* character, leaves the shift state alone and moves the cursor to exactly
\* p + 6 * samples_per_symbol + stop_len, where seeking resumes; a valid frame
\* that begins at or after that position is then found and decoded to the
\* character of its code.
C5_StopFailureResyncs ==
    [][StopFailureStep /\ FrameAfterResyncStep]_vars /\ []ValidFrameDecoded

\* a character was decoded from a frame found after a failed stop window
C5_Witness ==
    /\ pc = "done"
    /\ resync >= 0
    /\ last.at >= resync
    /\ last.some
    /\ string = <<last.ch>>

InBoundsAndForwardStep ==
    (pc \in {"seek", "check", "extract"} /\ samples_per_symbol(conf) >= 1)
        => (/\ pc' /= "oob"
            /\ cursor' <= BitsEnd(samples)
            /\ (pc = "extract" => cursor' > cursor))

\* C6: decode terminates and its cursor never passes bits_end: no step reads
\* outside the buffer or leaves the cursor beyond bits_end, and every frame
\* extracted moves the cursor forward (a frame extracted at a cursor that
\* stays where it is is extracted forever).  Stated for the rates that give
\* a symbol at least one bit.
C6_DecodeTerminatesInBounds == [][InBoundsAndForwardStep]_vars

\* C7: code 0b11111 gives no character and letters mode, code 0b11011 gives
\* no character and figures mode, whatever the shift state was.
C7_ShiftCodes ==
    /\ (last.code = 31) => (~last.some /\ last.letters_out /\ letters)
    /\ (last.code = 27) => (~last.some /\ ~last.letters_out /\ ~letters)

\* code 0b11111 was looked up in figures mode
C7_Witness == last.code = 31 /\ ~last.letters_in /\ letters

TableLookupDone ==
    (last.code \notin {-1, 27, 31})
        => (/\ last.some
            /\ last.code \in 0..31
            /\ Len(ITA2_letters) = 32 /\ Len(ITA2_figures) = 32
            /\ last.ch = (IF last.letters_in THEN ITA2_letters
                          ELSE ITA2_figures)[last.code + 1]
            /\ last.letters_out = last.letters_in
            /\ letters = last.letters_in)

ShiftCarriedStep == (feed.call = 1 /\ feed'.call = 2) => (letters' = letters)

\* C8: any other 5-bit code gives exactly one character, the entry at that
\* index of the 32-entry table of the current shift state, and leaves the
\* shift state alone; a call of decode starts with the shift state the call
\* before it left.
C8_TableLookup == []TableLookupDone /\ [][ShiftCarriedStep]_vars

\* the second call looked a code up in the figures table, the shift state
\* the first call was given and left
C8_Witness ==
    /\ feed.call = 2
    /\ pc = "done"
    /\ ~feed.letters0
    /\ emitted = <<>>
    /\ string = <<51>>
    /\ last.code = 1

(***************************************************************************)
(* Properties of FirFilter::apply                                          *)
(***************************************************************************)
\* one call of apply on the whole sequence
WholeFir == FirFilter_apply(input.whole, 0, 0, Len(input.whole), fir_decim, fir_taps)

\* C9: apply returns the number of input samples from the start of the first
\* window that produced no output to the end of the input, so that a sequence
\* processed in chunks, the returned number of samples carried before the next
\* chunk, gives the same outputs as one call on the whole sequence.
C9_ChunkedFirEqualsWhole ==
    (input.call = 2 /\ fir.pc = "ret" /\ WholeFir.pc = "ret") =>
        outputs \o SubSeq(fir.mem, 1, fir.dst_i) = SubSeq(WholeFir.mem, 1, WholeFir.dst_i)

\* the decimated convolution of an input that is only read: one output per
\* window of Len(tp) samples, the windows d apart, from window start w on
RECURSIVE Convolve(_, _, _, _)
Convolve(x, tp, d, w) ==
    IF w + Len(tp) > Len(x) THEN <<>>
    ELSE <<Dot(x, w, tp, 0)>> \o Convolve(x, tp, d, w + d)

Outputs(r) ==
    [status |-> r.status,
     out |-> IF r.status = "ok" THEN SubSeq(r.buffer, r.start + 1, r.start + r.count)
             ELSE <<>>]

\* one call of apply on the whole sequence, by a filter built alike
WholeMs ==
    Outputs(MultistageFir_apply(
                [filter EXCEPT !.prev_buffer = <<>>, !.prev_buffer_needs_resize = TRUE,
                               !.stages = [k \in 1..Len(filter.stages) |->
                                              [filter.stages[k] EXCEPT !.prev_elements = 0]]],
                Rep(batches.stale, batches.reserve) \o batches.whole, batches.reserve))

\* C1: with a fixed stage list, the outputs of consecutive apply calls on the
\* chunks of a sample sequence, put together, are the outputs of one apply
\* call on the whole sequence.
C1_ChunkedMsEqualsWhole ==
    (batches.call = 2 /\ ~batches.added /\ applied.status = "ok"
                      /\ WholeMs.status = "ok") =>
        decimated = WholeMs.out

(***************************************************************************)
(* Properties of Decoder::process                                          *)
(***************************************************************************)
\* C4: after every process call leftover_bits is the tail of the bit buffer
\* that decode reported unconsumed, from the returned cursor to bits_end (and
\* the next call hands decode exactly these bits before the new ones).
C4_LeftoverIsReportedTail ==
    (processed.status = "done") => decoder.leftover_bits = processed.tail

\* every access of the stage of record r stays in a buffer of length n: the
\* region the filter works on, with the carried samples before it, begins at
\* or after the start of the buffer and ends at or before its end
RegionInBuffer(r, n) ==
    /\ r.fault = "none"
    /\ 0 <= r.work_buf
    /\ r.work_buf + r.len <= n

\* C11: in a call of apply with reserve >= min_buffer_reserve() every read and
\* write of every stage, the prepending of the carried samples and the move of
\* the working region to the end of the buffer included, stays inside the
\* caller's buffer.
C11_StagesStayInBuffer ==
    (applied.status \in {"ok", "fault"}) =>
        \A k \in 1..Len(applied.log) : RegionInBuffer(applied.log[k], Len(batch_buffer))

\* what the caller hands to the call of apply that comes next
NextBuffer == Rep(batches.stale, batches.reserve) \o Head(batches.rest)

AssertBeforeChangesStep ==
    (/\ batches.rest /= <<>>
     /\ batches'.call = batches.call + 1
     /\ batches.reserve < min_buffer_reserve(filter))
        => (/\ applied'.status = "panic"
            /\ filter' = filter
            /\ batch_buffer' = NextBuffer
            /\ decimated' = decimated)

\* C12: apply called with a reserve smaller than min_buffer_reserve() stops at
\* its assertion, and the stages' carry-over counts, prev_buffer and the
\* caller's buffer are as they were before the call.
C12_AssertBeforeChanges == [][AssertBeforeChangesStep]_vars

\* the second call stopped at the assertion: a stage with a longer filter was
\* added after the first call and the caller kept its reserve
C12_Witness ==
    /\ applied.status = "panic"
    /\ batches.call = 2
    /\ batches.added
    /\ decimated /= <<>>
    /\ filter.prev_buffer_needs_resize

\* C13: the count a stage hands to the next stage is the number of outputs
\* its FirFilter::apply wrote, and the pair (start, count) apply returns
\* designates the samples the last stage wrote in this call.
C13_CountIsOutputsWritten ==
    (applied.status = "ok") =>
        /\ \A k \in 1..Len(applied.log) : applied.log[k].handed = applied.log[k].written
        /\ Len(applied.log) > 0 =>
              /\ applied.start = applied.log[Len(applied.log)].work_buf
              /\ applied.count = applied.log[Len(applied.log)].written

\* the slice of prev_buffer of stage k of the stage list st: where it starts
\* and how long it is
SliceStart(st, k) == SumLeftover(SubSeq(st, 1, k - 1))
SliceLen(st, k) == Len(st[k].fir) - 1

CarryLayoutStep ==
    (batches.rest /= <<>> /\ batches'.call = batches.call + 1)
        => \A k \in 1..Len(applied'.log) :
              LET r == applied'.log[k]
                  st == filter'.stages
              IN  /\ r.prev_buffer_len = SumLeftover(st)
                  /\ r.prev_buffer_len = Len(filter'.prev_buffer)
                  /\ r.prev_buf = SliceStart(st, k)
                  /\ r.prev_elements <= SliceLen(st, k)
                  /\ r.left <= SliceLen(st, k)
                  /\ \A j \in 1..(k - 1) :
                        SliceStart(st, j) + SliceLen(st, j) <= SliceStart(st, k)

C17_TapCountOdd ==
    (lowpass.pc \in {"sinc", "fmax", "normalize", "done"}) =>
        /\ lowpass.ntaps >= 1
        /\ lowpass.ntaps % 2 = 1
        /\ Len(lowpass.buf) = lowpass.ntaps
        /\ (lowpass.pc = "done" => Len(lowpass.taps) = lowpass.ntaps)

\* a filter was built for a width whose estimate, 8 taps, is even
C17_Witness ==
    /\ lowpass.pc = "done"
    /\ lowpass.width_m = 500
    /\ TapEstimate(lowpass.width_m, lowpass.window_kind) = 8
    /\ Len(lowpass.taps) = 9

\* the sum of the numerators of s from element i on
RECURSIVE SumNum(_, _)
SumNum(s, i) == IF i > Len(s) THEN 0 ELSE s[i].num + SumNum(s, i + 1)

\* the sum of a sequence of floats with one denominator; NaN if one of them
\* is not finite
SumTaps(s) ==
    IF \E i \in 1..Len(s) : s[i].class /= "finite" THEN NaN
    ELSE [class |-> "finite", num |-> SumNum(s, 1), den |-> s[1].den]

\* the transition widths that give a window of at least three taps: those in
\* (0, 0.5]
ProperWidth(width_m) == 0 < width_m /\ width_m <= 500

\* C18: the divisor fmax is the sum of all taps before the normalization,
\* and after it the taps add up to gain.  Stated for the transition widths in
\* (0, 0.5].
C18_TapsSumToGain ==
    (lowpass.pc \in {"normalize", "done"} /\ ProperWidth(lowpass.width_m)) =>
        /\ lowpass.fmax = SumTaps(lowpass.buf)
        /\ (lowpass.pc = "done") =>
               /\ SumTaps(lowpass.taps).class = "finite"
               /\ SumTaps(lowpass.taps).num = lowpass.gain * SumTaps(lowpass.taps).den

\* the same for the filters with a cutoff frequency above zero
GainOfPassingLowpass ==
    (lowpass.pc /= "idle" /\ lowpass.cutoff.p > 0) => C18_TapsSumToGain

(***************************************************************************)
(* Properties of the constructors of MultistageFir and of the commands    *)
(* that call them                                                          *)
(***************************************************************************)
RECURSIVE ProductOfStages(_)
ProductOfStages(stages) ==
    IF stages = <<>> THEN 1
    ELSE Head(stages).decimation * ProductOfStages(Tail(stages))



\* C14: the total decimation that new_multistage_decim_precise returns is
\* the product of the decimation factors of all stages of the cascade it
\* built, the cached stages and the final stage.
C14_TotalIsProductOfStages ==
    \A i \in 1..Len(built) :
        built[i].call.status = "ok" =>
            built[i].call.returned = ProductOfStages(built[i].call.stages)

\* a cascade of two cached stages of different factors and a final stage
\* that decimates
C14_Witness ==
    \E i \in 1..Len(built) :
        /\ built[i].call.status = "ok"
        /\ built[i].call.cached >= 2
        /\ built[i].call.stages[1].decimation /= built[i].call.stages[2].decimation
        /\ built[i].call.stages[Len(built[i].call.stages)].decimation > 1

\* s is t or the beginning of t
IsPrefix(s, t) == Len(s) <= Len(t) /\ \A i \in 1..Len(s) : t[i] = s[i]

\* the stages a cascade got from new_multistage_decim_imprecise_cached, all
\* but the final stage
CachedStages(call) == {k \in 1..Len(call.stages) : k <= call.cached}

CacheStep ==
    /\ \A i, j \in 1..Len(worker'.decimation_fir_cache) :
           worker'.decimation_fir_cache[i].factor = worker'.decimation_fir_cache[j].factor
               => i = j
    /\ IsPrefix(worker.decimation_fir_cache, worker'.decimation_fir_cache)
    /\ IsPrefix(rc_heap, rc_heap')
    /\ \A n \in 1..Len(built') :
           built'[n].call.status = "ok" =>
               \A k \in CachedStages(built'[n].call) :
                   \E i \in 1..Len(worker'.decimation_fir_cache) :
                       /\ worker'.decimation_fir_cache[i].factor
                              = built'[n].call.stages[k].decimation
                       /\ worker'.decimation_fir_cache[i].rc = built'[n].call.stages[k].fir
    /\ (/\ Len(built') > Len(built)
        /\ \E n \in 1..Len(built) :
               built[n].call.asked = built'[Len(built')].call.asked)
           => worker'.decimation_fir_cache = worker.decimation_fir_cache

\* C16: after any sequence of constructions that share the cache of the
\* worker, the cache holds at most one filter per factor, no entry is
\* removed or replaced, every cached stage of factor f of every cascade
\* built is the filter object of the cache entry for f, and a construction
\* with a decimation factor that was asked for before adds no entry.
C16_CacheSharesOneFilterPerFactor == [][CacheStep]_vars

\* two constructions with the same factor: both cascades have two cached
\* stages, made of the same objects, and final stages of their own
C16_Witness ==
    /\ Len(built) = 2
    /\ built[1].call.status = "ok" /\ built[2].call.status = "ok"
    /\ built[1].call.asked = built[2].call.asked
    /\ built[1].call.cached = 2 /\ built[2].call.cached = 2
    /\ \A k \in 1..2 : built[1].call.stages[k].fir = built[2].call.stages[k].fir
    /\ built[1].call.stages[3].fir /= built[2].call.stages[3].fir
    /\ Len(worker.decimation_fir_cache) = 2

\* a cascade that was returned has a stage
ReturnedCascadeHasStages ==
    \A n \in 1..Len(built) :
        built[n].call.status = "ok" =>
            built[n].call.cached >= 1 /\ built[n].call.stages /= <<>>

\* C19: construction never returns a MultistageFir without stages:
\* new_multistage_decim_imprecise_cached aborts on its assertion when not
\* even the factor 16 is below the decimation factor asked for, and
\* otherwise returns a cascade with at least one stage.
C19_AssertsOrReturnsStages ==
    \A n \in 1..Len(built) :
        IF built[n].call.asked <= 16
        THEN built[n].call.status = "assert"
        ELSE built[n].call.status = "ok" /\ built[n].call.cached >= 1

\* the decoder that the last command left installed
Installed(w) == Unwrap(w.decoder)

SetDecoderStep ==
    (/\ Len(built') > Len(built)
     /\ built'[Len(built')].command = "SetDecoder"
     /\ worker'.decoder /= None)
        => IF worker.decoder /= None
           THEN /\ Installed(worker').letters = Installed(worker).letters
                /\ Installed(worker').leftover_bits = Installed(worker).leftover_bits
           ELSE /\ Installed(worker').letters
                /\ Installed(worker').leftover_bits = <<>>

\* C20: a SetDecoder command that installs a decoder while one is installed
\* leaves the new decoder with the letters flag and the leftover_bits of
\* the previous one; with no decoder installed, initially or after
\* DestroyDevice, the new decoder is in letters mode with no leftover bits.
C20_SetDecoderReclaimsShiftState == [][SetDecoderStep]_vars

\* the second SetDecoder re-tuned a decoder that was in figures mode, the
\* first one found none
C20_Witness ==
    /\ Len(built) = 2
    /\ built[1].command = "SetDecoder" /\ built[1].prev = None
    /\ built[2].command = "SetDecoder" /\ built[2].prev /= None
    /\ ~Unwrap(built[2].prev).letters
    /\ built[2].new.letters
    /\ built[2].new.baudrate_q /= Unwrap(built[2].prev).baudrate_q
    /\ built[2].call.status = "ok"
    /\ worker.decoder /= None
    /\ ~Installed(worker).letters
    /\ Installed(worker).baudrate_q = built[2].new.baudrate_q

StopsWithin(n) ==
    /\ (pc = "check" /\ StopBitStart(cursor, conf) + samples_per_stop_bit(conf) > n)
           => /\ pc' = "done"
              /\ cursor' = cursor
              /\ string' = string
              /\ letters' = letters
              /\ BitsEnd(samples) - cursor' = n - cursor
    /\ (pc = "seek" /\ cursor = n)
           => /\ pc' = "done"
              /\ BitsEnd(samples) - cursor' = 0

\* C27: when decode finds a start bit at p and p + 6 * samples_per_symbol +
\* the stop window exceeds the bits available, it stops without a character
\* for that frame and without a change of the shift state, the cursor
\* returned at p and the leftover count the number of bits from p to the end;
\* when the bits run out while a start bit is sought, the leftover count is 0.
C27_StopsAtUnfinishedFrame == [][StopsWithin(Len(bits))]_vars

\* the same in a call without bits carried in, the only kind of call that
\* Decoder::process makes
StopsAtUnfinishedFrameOfFirstCall == [][bits_offset = 0 => StopsWithin(Len(bits))]_vars

\* the factors try_factor! is expanded with
CachedFactors == {256, 128, 64, 32, 16}

\* the product of the first k stages
ProductOfFirst(stages, k) == ProductOfStages(SubSeq(stages, 1, k))

C29_OneFinalStage ==
    \A n \in 1..Len(built) :
        LET call == built[n].call
        IN  call.status = "ok" =>
                /\ Len(call.stages) = call.cached + 1
                /\ call.stages[Len(call.stages)].decimation = call.asked \div call.achieved
                /\ call.stages[Len(call.stages)].decimation \in 1..16
                /\ rc_heap[call.stages[Len(call.stages)].fir].width_m = 100

\* final stages of factor 16 (4096 asked for, 256 achieved) and of factor 2
\* (256 asked for, 128 achieved)
C29_Witness ==
    /\ Len(built) = 2
    /\ built[1].call.status = "ok" /\ built[2].call.status = "ok"
    /\ built[1].call.asked = 4096
    /\ built[1].call.stages[Len(built[1].call.stages)].decimation = 16
    /\ built[2].call.asked = 256
    /\ built[2].call.stages[Len(built[2].call.stages)].decimation = 2

\* the filter the worker holds is the cascade that the last construction
\* made, with nothing carried over
FreshFilter(w, call) ==
    /\ w.current_fir_filter /= None
    /\ Unwrap(w.current_fir_filter).stages = call.stages
    /\ \A k \in 1..Len(call.stages) :
           Unwrap(w.current_fir_filter).stages[k].prev_elements = 0
    /\ Unwrap(w.current_fir_filter).prev_buffer = <<>>

\* a SetReceiver command that reached a decoder and came back
Retuned ==
    /\ Len(built') > Len(built)
    /\ built'[Len(built')].command = "SetReceiver"
    /\ worker'.decoder /= None

\* C21: when SetReceiver reconfigures the receiver while a decoder is
\* installed, the worker installs a newly built MultistageFir whose stages
\* carry nothing over, and the shift state of the decoder is reset to
\* letters mode.
C21_SetReceiverResetsFilterAndShift ==
    [][Retuned => /\ FreshFilter(worker', built'[Len(built')].call)
                  /\ Installed(worker').letters]_vars

\* the part about the filter
SetReceiverInstallsFreshFilter ==
    [][Retuned => FreshFilter(worker', built'[Len(built')].call)]_vars

\* the shift state after SetReceiver is the one before it
SetReceiverKeepsShift ==
    [][Retuned => Installed(worker').letters = Installed(worker).letters]_vars

\* the turn of the loop that read the last batch is over: the thread is at
\* the top of the loop again, or about to read
TurnOver == thread.pc \in {"flag", "read"}

\* C22: while a decoder is installed and the stream is active,
\* Decoder::process runs exactly once for every batch read from the stream,
\* after that batch was read and before the next read, and it never runs
\* without a newly read batch.
C22_ProcessOncePerBatch ==
    /\ batch.runs <= 1
    /\ ~batch.stale
    /\ (TurnOver /\ batch.watched) => batch.runs = 1

\* Decoder::process never runs twice on a batch, and never without a batch
\* read in the same turn of the loop
ProcessOnlyOnNewBatch == batch.runs <= 1 /\ ~batch.stale

\* every batch read with a decoder installed is processed before the next
\* read unless a command handler returned an error in between
ProcessOncePerBatchUnlessCommandFails ==
    (TurnOver /\ batch.watched /\ ~batch.failed) => batch.runs = 1

\* a batch was read with a decoder installed and processed once
ProcessedOnce == TurnOver /\ batch.watched /\ batch.runs = 1 /\ batch.id = 2

\* where process leaves the samples that apply returned: at start, or behind
\* the leftover bits when these do not fit in front of start
DecimatedAt(p) ==
    IF p.bits_offset > p.start * SampleBytes THEN bits_len_as_complex(p.bits_offset)
    ELSE p.start

\* C23: in Decoder::process the samples handed to the bit extractor are
\* exactly the count decimated samples at offset start that apply returned:
\* no stale, undecimated or unrelated buffer content is decoded.
C23_DecodeGetsDecimatedSamples ==
    processed.status = "done" =>
        processed.samples = SubSeq(processed.samples, DecimatedAt(processed) + 1,
                                   DecimatedAt(processed) + processed.count)

\* decode is handed the whole of working_memory, from its first cell on
DecodeGetsWholeMemory ==
    processed.status = "done" => Len(processed.samples) = Len(working_memory)

\* Settings::new is over
ParserDone == parser.pc \in {"returned", "panicked"}

\* the string is made of blank lines, comments and valid statements only,
\* each value followed by whitespace
ValidInput ==
    /\ \A k \in 1..Len(lines) : lines[k] \in ValidPieces
    /\ \/ config_text = Concat(lines)
       \/ lines /= <<>> /\ lines[Len(lines)].kind /= "statement"

\* no later statement assigns the name of statement k again
LastOfName(k) ==
    \A j \in (k + 1)..Len(lines) :
        lines[j].kind = "statement" => lines[j].name /= lines[k].name

\* C24: Settings::new returns an empty error list for input made only of
\* blank lines, '#' comments and `name = value` statements with valid names
\* and with strings using the known escapes or unsigned decimal numbers as
\* values, each value followed by whitespace; every such name is then
\* stored with its parsed value.
C24_ValidInputParsesWithoutErrors ==
    (ParserDone /\ ValidInput) =>
        /\ parser.pc = "returned"
        /\ parser.errors = <<>>
        /\ \A k \in 1..Len(lines) :
              lines[k].kind = "statement" =>
                  /\ lines[k].name \in DOMAIN parser.fields
                  /\ LastOfName(k) => parser.fields[lines[k].name] = lines[k].field

\* a number with a decimal part and a string with every escape were stored
C24_Witness ==
    /\ parser.pc = "returned"
    /\ ValidInput
    /\ Len(lines) = 2
    /\ lines[1].name = <<"1">> /\ lines[1].field = Field_Number(32050)
    /\ lines[2].name = <<"-", "n", "_">> /\ lines[2].field.type = "String"
    /\ Len(lines[2].field.string) = 7
    /\ DOMAIN parser.fields = {<<"1">>, <<"-", "n", "_">>}

\* the string holds a statement that is to be reported
BrokenInput == \E k \in 1..Len(lines) : lines[k] \in BrokenPieces

\* no statement with an invalid name was inserted, under its name or under
\* the empty name the parser goes on with
InvalidNamesSkipped ==
    /\ <<>> \notin DOMAIN parser.fields
    /\ \A k \in 1..Len(lines) :
          lines[k].kind = "name" => lines[k].name \notin DOMAIN parser.fields

\* C25: Settings::new reports at least one error, and terminates, for a
\* statement whose name contains whitespace or ASCII punctuation other than
\* '_' and '-', for a number containing a second '.', for a name followed by
\* '=' with no value, and for a line with no '='; a statement with an
\* invalid name is not inserted into the settings map.
C25_BrokenStatementIsReported ==
    (ParserDone /\ BrokenInput) =>
        /\ parser.pc = "returned"
        /\ parser.errors /= <<>>
        /\ InvalidNamesSkipped

\* the same for a string that holds nothing but the one broken statement
LoneBrokenStatementIsReported ==
    (ParserDone /\ BrokenInput /\ Len(lines) = 1) =>
        /\ parser.pc = "returned"
        /\ parser.errors /= <<>>
        /\ InvalidNamesSkipped

\* the same for every string whose statement without a value is not followed
\* by a line that starts with a digit or a '.'
BrokenStatementIsReportedUnlessNumberFollows ==
    (/\ ParserDone
     /\ BrokenInput
     /\ \A k \in 1..(Len(lines) - 1) :
           lines[k].kind = "no value" =>
               ~(is_ascii_digit(lines[k + 1].text[1]) \/ lines[k + 1].text[1] = "."))
    => /\ parser.pc = "returned"
       /\ parser.errors /= <<>>
       /\ InvalidNamesSkipped

\* where decode reads data bit i of the frame whose start bit is at p
DataBitAt(p, c, i) == FirstDataBit(p, c) + i * samples_per_symbol(c)

\* the reads of the frame at the cursor lie in the buffer and before its
\* stop window, and the step that extracts it makes bit i of the code the
\* inverse of the i-th bit read
FrameReadAsLaidOut ==
    \A i \in 0..4 :
        /\ 0 <= DataBitAt(cursor, conf, i)
        /\ DataBitAt(cursor, conf, i) < Len(bits)
        /\ DataBitAt(cursor, conf, i) < StopBitStart(cursor, conf)
        /\ CodeBit(last'.code, i) = ~bits[DataBitAt(cursor, conf, i) + 1]

\* C31: for a frame whose stop window passed the bounds check, the five
\* data-bit reads at p + samples_per_symbol + half_samples_per_symbol +
\* i*samples_per_symbol (i = 0..4) all lie inside the bit buffer and before
\* the start of the stop window, and the i-th bit read, inverted, becomes
\* bit i (least significant first) of the 5-bit code.
C31_DataBitsReadInsideFrame ==
    [][(pc = "extract" /\ pc' /= "extract") => FrameReadAsLaidOut]_vars

\* the same when a symbol is at least one bit long
DataBitsReadInsideFrameOfWholeSymbols ==
    [][(pc = "extract" /\ pc' /= "extract" /\ samples_per_symbol(conf) >= 1)
           => FrameReadAsLaidOut]_vars

\* C32: when Decoder::process calls decode, the symbol length is derived
\* from the decoder's configured baud rate and the sample rate of the
\* decimated stream, and the stop window length from that symbol length
\* times the decoder's configured stop_bits: each configured value reaches
\* decode in its own role.
C32_DecodeGetsConfiguredRates ==
    processed.status = "done" =>
        /\ processed.conf.baud_q = decoder.baudrate_q
        /\ processed.conf.stop_q = decoder.stop_q
        /\ processed.conf.samplerate * ProductOfStages(current_fir_filter.stages)
               = samplerate

\* what reaches decode: the baud rate as stop_bits, stop_bits as the baud
\* rate, and the sample rate of the receiver before decimation
DecodeGetsSwappedRates ==
    processed.status = "done" =>
        /\ processed.conf.baud_q = decoder.stop_q
        /\ processed.conf.stop_q = decoder.baudrate_q
        /\ processed.conf.samplerate = samplerate

\* the phase of sample b relative to sample a is not negative: the
\* imaginary part of conj(a) * b is positive, or zero with a real part that
\* is not negative
PhaseNonNegative(a, b) ==
    LET im == a[1] * b[2] - a[2] * b[1]
        re == a[1] * b[1] + a[2] * b[2]
    IN  im > 0 \/ (im = 0 /\ re >= 0)

\* the sample that sample i (from 1) of a call is compared with
Reference(smp, i) == IF i = 1 THEN <<1, 0>> ELSE smp[i - 1]

NumberInput == \A k \in 1..Len(lines) : lines[k] \in ValidPieces \cup HashEndedPieces

\* C34: in Settings::new a numeric value is terminated without error by a
\* newline, a '#', the end of the input, or any whitespace character, both
\* in the integer part and in the decimal part.
C34_NumberEndsWithoutError ==
    (ParserDone /\ NumberInput) =>
        /\ parser.pc = "returned"
        /\ parser.errors = <<>>
        /\ \A k \in 1..Len(lines) :
              (lines[k].kind = "statement" /\ LastOfName(k)) =>
                  /\ lines[k].name \in DOMAIN parser.fields
                  /\ parser.fields[lines[k].name] = lines[k].field

\* a number that is followed by '#' or by the end of the string is reported
\* and stored as a parse error
NumberEndedByHashOrEndIsReported ==
    (/\ ParserDone
     /\ Len(lines) = 1
     /\ lines[1].kind = "statement"
     /\ lines[1].field.type = "Number"
     /\ \/ lines[1] \in HashEndedPieces
        \/ config_text /= Concat(lines))
    => /\ parser.errors /= <<>>
       /\ parser.fields[lines[1].name] = Field_ParseError

\* the slice process passes to apply, and the samples the read of this turn
\* put into working_memory
SlicePassed == SubSeq(working_memory, 1, memory_received_count)
BatchRead ==
    SubSeq(working_memory, memory_receive_offset + 1,
           memory_receive_offset + memory_received_count)

\* C35: whenever Decoder::process calls MultistageFir::apply, in every
\* reachable worker state and for every read length, the reserve argument is
\* at least the filter's min_buffer_reserve() and at most the length of the
\* buffer slice passed, and the region of that slice after the reserve holds
\* exactly the samples read in the current batch.
C35_ApplyGetsReserveAndBatch ==
    worker_pc = "process" =>
        /\ memory_receive_offset >= min_buffer_reserve(current_fir_filter)
        /\ memory_receive_offset <= Len(SlicePassed)
        /\ SubSeq(SlicePassed, memory_receive_offset + 1, Len(SlicePassed)) = BatchRead

\* the reserve passed is never below what the filter asks for
ReserveCoversFilter ==
    worker_pc = "process" =>
        memory_receive_offset >= min_buffer_reserve(current_fir_filter)

\* with a filter that needs no reserve the slice passed is the batch read
SliceIsBatchWithoutReserve ==
    (worker_pc = "process" /\ memory_receive_offset = 0) => SlicePassed = BatchRead

(***************************************************************************)
(* Properties of InnerDeviceManager and of the task queue                  *)
(***************************************************************************)
\* the state a command needs: DestroyDevice and SetReceiver a valid device,
\* CreateDevice none, RequestData and SetDecoder a valid device and a valid
\* receiver, RefreshDevices nothing
StateRequirement(m, command) ==
    /\ command \in {"DestroyDevice", "SetReceiver"} => m.device_valid
    /\ command = "CreateDevice" => ~m.device_valid
    /\ command \in {"RequestData", "SetDecoder"} =>
           m.device_valid /\ m.receiver_valid

\* the five fields of the manager's state
ManagerState(m) ==
    <<m.device_valid, m.receiver_valid, m.decoder_valid, m.refreshing_devices,
      m.data_requests_in_flight>>

\* C37: send_command of a command whose state requirement fails returns
\* BadState, sends nothing on the command channel and leaves device_valid,
\* receiver_valid, decoder_valid, refreshing_devices and
\* data_requests_in_flight as they were.
C37_BadStateChangesNothing ==
    [][\A command \in DeviceBoundCommand :
           (send_command(command) /\ ~StateRequirement(manager, command)) =>
               /\ manager'.sent = [command |-> command, result |-> "BadState"]
               /\ device_commands' = device_commands
               /\ ManagerState(manager') = ManagerState(manager)]_vars

\* a RequestData was refused by a manager with a device and no receiver
C37_Witness ==
    /\ manager.pc = "running"
    /\ manager.sent = [command |-> "RequestData", result |-> "BadState"]
    /\ manager.device_valid
    /\ ~manager.receiver_valid
    /\ device_commands /= <<>>

\* C36: under every interleaving of the commands the manager accepts, the
\* events it receives and the worker's handling of the commands, failed
\* device creations included, the worker never handles CreateDevice while it
\* holds a device and never handles SetReceiver while it holds none.
C36_WorkerAssertionsHold ==
    /\ ~(device_worker.handled.command = "CreateDevice"
         /\ device_worker.handled.device)
    /\ ~(device_worker.handled.command = "SetReceiver"
         /\ ~device_worker.handled.device)

\* whether a is b with some of its elements left out
RECURSIVE IsSubsequence(_, _)
IsSubsequence(a, b) ==
    IF a = <<>> THEN TRUE
    ELSE IF b = <<>> THEN FALSE
    ELSE IF Head(a) = Head(b) THEN IsSubsequence(Tail(a), Tail(b))
    ELSE IsSubsequence(a, Tail(b))

\* the entries of the sequence h as a bag
EntryBag(h) == [e \in {h[i] : i \in DOMAIN h} |-> Cardinality({i \in DOMAIN h : h[i] = e})]

\* C38: poll_scheduled_commands dispatches the scheduled commands whose
\* trigger time has passed, in non-decreasing order of trigger time, and no
\* command before its trigger time; it returns the time remaining until the
\* earliest command still pending, and 5 when none is pending.
C38_PollDispatchesDueCommandsInOrder ==
    [][poll_scheduled_commands =>
           LET current == manager.elapsed
               before == manager.scheduled_commands
               pending == manager'.scheduled_commands
               polled == Unwrap(manager'.polled)
               dispatched == polled.dispatched
               sent == SubSeq(device_commands', Len(device_commands) + 1,
                              Len(device_commands'))
           IN /\ EntryBag(dispatched \o pending) = EntryBag(before)
              /\ \A i \in DOMAIN dispatched :
                     dispatched[i].trigger_time < current
              /\ \A i \in DOMAIN pending : pending[i].trigger_time >= current
              /\ \A i \in DOMAIN dispatched : \A j \in DOMAIN dispatched :
                     i < j =>
                         dispatched[i].trigger_time <= dispatched[j].trigger_time
              /\ IsSubsequence(sent, [i \in DOMAIN dispatched |->
                                          dispatched[i].command])
              /\ SubSeq(device_commands', 1, Len(device_commands)) =
                     device_commands
              /\ polled.returned =
                     IF pending = <<>> THEN 5
                     ELSE CHOOSE t \in 0..(MaxElapsed + MaxDelay) :
                              /\ \E i \in DOMAIN pending :
                                     pending[i].trigger_time = current + t
                              /\ \A i \in DOMAIN pending :
                                     pending[i].trigger_time >= current + t]_vars

\* a poll dispatched two commands, the one with the earlier trigger time
\* first, and the worker's channel received them
C38_Witness ==
    /\ manager.pc = "running"
    /\ manager.polled /= None
    /\ Len(Unwrap(manager.polled).dispatched) = 2
    /\ Unwrap(manager.polled).dispatched[1].trigger_time
           < Unwrap(manager.polled).dispatched[2].trigger_time
    /\ Unwrap(manager.polled).returned = 5
    /\ manager.sent.result = "Ok"

\* C39: dropping a Worker always completes: once the stop flag is set the
\* thread observes it and returns, so that the join returns, whatever the
\* thread was doing, parked on an empty queue included.
C39_DropCompletes ==
    (simple_worker.main = "join") ~> (simple_worker.main = "dropped")

\* the thread leaves every place of its loop but the park sooner or later
ThreadStopsOnlyInPark ==
    (simple_worker.pc \in {"load", "pop", "process"})
        ~> (simple_worker.pc \in {"park", "returned"})

====
